---- MODULE Spec2Model ----
(***************************************************************************)
(* A model of the lux FFI engine (crates/lux-ffi): the C type algebra, the *)
(* registry, the cdef declaration parser, owned/borrowed memory regions,   *)
(* the call engine and the callback engine.                                *)
(*                                                                         *)
(* Text is a sequence of atoms.  An atom is an identifier, keyword or      *)
(* number ("int", "a", "4"), one punctuation mark ("(", ")", "{", "}",     *)
(* "[", "]", ";", ",", "*", "=", "...", "#", "//"), one blank " " or one   *)
(* line break "\n".  The parser's character tests (starts_with, contains,  *)
(* find, trim, split) are applied to atoms.                                *)
(***************************************************************************)
EXTENDS Integers, Sequences, FiniteSets, TLC

VARIABLES
    structs,    \* Registry.structs : name -> StructDef
    enums,      \* Registry.enums   : name -> (entry -> value)
    typedefs,   \* Registry.typedefs: name -> CType
    funcs,      \* Registry.funcs   : name -> FuncSig
    lastBlock,  \* the declarations handed to the most recent cdef call
    boxes,      \* the CBox objects created so far (memory.rs CBox)
    allocs,     \* the regions obtained from the allocator, with their releases
    handles,    \* the CTypeWrapper objects created by ffi.typeof
    lastCall,   \* the most recent native invocation request and its outcome
    callbacks,  \* the FfiCallback objects created so far (callback.rs)
    lastTramp,  \* the most recent trampoline invocation and its return slot
    threads,    \* the native threads registering and looking up structs
    lock,       \* the holder of the registry Mutex: <<>> or <<thread>>
    seen,       \* the results of the lookups made by the reading thread
    typeProbe,  \* the most recent ffi.sizeof / ffi.alignof query and its answer
    lastBatch,  \* the most recent ffi.batch call: memory before and after, outcome
    added,      \* the add_* calls made directly on the registry, in order
    lastIndex,  \* the most recent indexing of a library handle and its result
    heap,       \* the pointer-sized words of the allocated regions, by address
    ffiOp,      \* the FFI operation the Lua thread is in, and how far it got
    lastSlots,  \* the slot storage and argument pointers of the most recent call
    signal,     \* the State of the signal: conns, to_remove, firing
    fires,      \* the calls of Signal::fire in progress, the innermost last
    connections \* the Connection handles created, by id, with what happened to them

regVars == <<structs, enums, typedefs, funcs>>
cbVars == <<callbacks, lastTramp>>
threadVars == <<threads, lock, seen>>
sigVars == <<signal, fires, connections>>
lateVars == <<heap, ffiOp, lastSlots, sigVars>>
extraVars == <<added, lastIndex, lateVars>>
moreVars == <<typeProbe, lastBatch, extraVars>>

\* two threads that register a struct each and one that looks structs up
Writers == {"w1", "w2"}
Threads == Writers \cup {"r"}

(***************************************************************************)
(* Text helpers (std::str methods the parser uses).                        *)
(***************************************************************************)
SP == " "
NL == "\n"
EmptyMap == [x \in {} |-> 0]

Min(a, b) == IF a <= b THEN a ELSE b
Max(a, b) == IF a >= b THEN a ELSE b

Drop(s, n) == IF n >= Len(s) THEN <<>> ELSE SubSeq(s, n + 1, Len(s))
Take(s, n) == IF n <= 0 THEN <<>> ELSE SubSeq(s, 1, Min(n, Len(s)))
Last(s) == s[Len(s)]
Front(s) == Take(s, Len(s) - 1)

\* char::is_whitespace
IsWs(a) == a \in {SP, NL}

RECURSIVE TrimStart(_)
TrimStart(s) == IF s # <<>> /\ IsWs(Head(s)) THEN TrimStart(Tail(s)) ELSE s

RECURSIVE TrimEnd(_)
TrimEnd(s) == IF s # <<>> /\ IsWs(Last(s)) THEN TrimEnd(Front(s)) ELSE s

Trim(s) == TrimEnd(TrimStart(s))

RECURSIVE TrimStartMatches(_, _)
TrimStartMatches(s, a) ==
    IF s # <<>> /\ Head(s) = a THEN TrimStartMatches(Tail(s), a) ELSE s

RECURSIVE TrimEndMatches(_, _)
TrimEndMatches(s, a) ==
    IF s # <<>> /\ Last(s) = a THEN TrimEndMatches(Front(s), a) ELSE s

Contains(s, a) == \E i \in 1..Len(s) : s[i] = a

\* str::find / str::rfind: the position of the atom, 0 for None
Find(s, a) == IF Contains(s, a)
              THEN CHOOSE i \in 1..Len(s) : s[i] = a /\ \A j \in 1..(i - 1) : s[j] # a
              ELSE 0
RFind(s, a) == IF Contains(s, a)
               THEN CHOOSE i \in 1..Len(s) : s[i] = a /\ \A j \in (i + 1)..Len(s) : s[j] # a
               ELSE 0

StartsWith(s, p) == Len(s) >= Len(p) /\ SubSeq(s, 1, Len(p)) = p
EndsWith(s, a) == s # <<>> /\ Last(s) = a
StripPrefix(s, p) == IF StartsWith(s, p) THEN Drop(s, Len(p)) ELSE s

\* str::split(a): the pieces between occurrences of a (always at least one piece)
RECURSIVE SplitAcc(_, _, _, _)
SplitAcc(s, a, cur, acc) ==
    IF s = <<>> THEN Append(acc, cur)
    ELSE IF Head(s) = a THEN SplitAcc(Tail(s), a, <<>>, Append(acc, cur))
    ELSE SplitAcc(Tail(s), a, Append(cur, Head(s)), acc)
Split(s, a) == SplitAcc(s, a, <<>>, <<>>)

\* str::lines(): split at line breaks, no trailing empty line
Lines(s) == LET p == Split(s, NL) IN IF Last(p) = <<>> THEN Front(p) ELSE p

\* str::split_whitespace(): the non-empty words
RECURSIVE NonEmpty(_)
NonEmpty(ws) == IF ws = <<>> THEN <<>>
                ELSE IF Head(ws) = <<>> THEN NonEmpty(Tail(ws))
                ELSE <<Head(ws)>> \o NonEmpty(Tail(ws))
ToBlank(s) == [i \in 1..Len(s) |-> IF IsWs(s[i]) THEN SP ELSE s[i]]
SplitWhitespace(s) == NonEmpty(Split(ToBlank(s), SP))

\* str::replace(pat, rep): every non-overlapping match, left to right
RECURSIVE Replace(_, _, _)
Replace(s, pat, rep) ==
    IF s = <<>> THEN <<>>
    ELSE IF StartsWith(s, pat) THEN rep \o Replace(Drop(s, Len(pat)), pat, rep)
    ELSE <<Head(s)>> \o Replace(Tail(s), pat, rep)

\* [..].join(sep)
RECURSIVE Join(_, _)
Join(ws, sep) == IF ws = <<>> THEN <<>>
                 ELSE IF Len(ws) = 1 THEN Head(ws)
                 ELSE Head(ws) \o <<sep>> \o Join(Tail(ws), sep)

\* chars().take_while(|c| c == a)
RECURSIVE TakeWhile(_, _)
TakeWhile(s, a) == IF s # <<>> /\ Head(s) = a THEN <<a>> \o TakeWhile(Tail(s), a) ELSE <<>>

\* line.split("//").next().unwrap_or("").trim()
StripComment(l) == Trim(Head(Split(l, "//")))

\* str::parse::<usize>() of a trimmed piece: the value, or -1 for Err
Digits == {"0", "1", "2", "3", "4", "5", "6", "7", "8", "9", "10", "16"}
ParseUsize(s) ==
    LET t == Trim(s) IN
    IF Len(t) = 1 /\ t[1] \in Digits
    THEN CHOOSE n \in 0..16 : ToString(n) = t[1]
    ELSE -1

(***************************************************************************)
(* Type System (types.rs).  Option<T> is a sequence: <<>> is None and      *)
(* <<t>> is Some(t).  A name is the atom sequence of its text.             *)
(***************************************************************************)
Prim(k) == [k |-> k]
Pointer(inner) == [k |-> "Pointer", inner |-> inner]
Array(elem, count) == [k |-> "Array", elem |-> elem, count |-> count]
Struct(name) == [k |-> "Struct", name |-> name]
Union(name) == [k |-> "Union", name |-> name]
Enum(name) == [k |-> "Enum", name |-> name]
Function(ft) == [k |-> "Function", ft |-> ft]

\* the build the model describes: x86-64, not Windows, c_char = i8
cfg_windows == FALSE
target_pointer_width == 64
c_char_is_u8 == FALSE
size_of_usize == target_pointer_width \div 8

Size1 == {"Bool", "Char", "UChar", "Int8", "UInt8"}
Size2 == {"Short", "UShort", "Int16", "UInt16", "WChar"}
Size4 == {"Int", "UInt", "Int32", "UInt32", "Float", "HRESULT"}
Size8 == {"Long", "ULong", "LongLong", "ULongLong", "Int64", "UInt64", "Double"}

\* Registry::struct_size / struct_align on the structs table S
struct_size(S, name) == IF name \in DOMAIN S THEN <<S[name].size>> ELSE <<>>
struct_align(S, name) == IF name \in DOMAIN S THEN <<S[name].align>> ELSE <<>>
UnwrapOr(opt, d) == IF opt = <<>> THEN d ELSE opt[1]

RECURSIVE CType_size(_, _)
CType_size(t, S) ==
    CASE t.k = "Void" -> 0
      [] t.k \in Size1 -> 1
      [] t.k \in Size2 -> 2
      [] t.k \in Size4 -> 4
      [] t.k \in Size8 -> 8
      [] t.k = "GUID" -> 16
      [] t.k \in {"Pointer", "Function"} -> size_of_usize
      [] t.k = "Array" -> CType_size(t.elem, S) * t.count
      [] t.k \in {"Struct", "Union"} -> UnwrapOr(struct_size(S, t.name), 0)
      [] t.k = "Enum" -> 4

RECURSIVE CType_align(_, _)
CType_align(t, S) ==
    CASE t.k = "Void" -> 1
      [] t.k \in Size1 -> 1
      [] t.k \in Size2 -> 2
      [] t.k \in Size4 \cup {"Enum"} -> 4
      [] t.k \in Size8 -> 8
      [] t.k = "GUID" -> 4
      [] t.k \in {"Pointer", "Function"} -> size_of_usize
      [] t.k = "Array" -> CType_align(t.elem, S)
      [] t.k \in {"Struct", "Union"} -> UnwrapOr(struct_align(S, t.name), 1)

\* names following the LP*/P* convention (types.rs 261-267), among the
\* identifiers the model's declarations use
PointerConventionNames == {"LPFOO", "PBAR"}

\* the primitive-keyword table of CType::parse as compiled for a build (Windows or
\* not, pointer width 32 or 64); <<>> when no keyword matches
PrimitiveOn(s, windows, width) ==
    LET w == IF Len(s) = 1 THEN s[1] ELSE ""
        ptrInt == IF width = 64 THEN "Long" ELSE "Int"
        ptrUInt == IF width = 64 THEN "ULong" ELSE "UInt"
    IN
    CASE w = "void" -> <<Prim("Void")>>
      [] w \in {"bool", "_Bool", "BOOL"} -> <<Prim("Int")>>
      [] w = "char" -> IF c_char_is_u8 THEN <<Prim("UChar")>> ELSE <<Prim("Char")>>
      [] w = "int8_t" \/ s = <<"signed", SP, "char">> -> <<Prim("Char")>>
      [] w \in {"uint8_t", "BYTE", "byte"} \/ s = <<"unsigned", SP, "char">> -> <<Prim("UChar")>>
      [] w \in {"short", "int16_t", "SHORT"} -> <<Prim("Short")>>
      [] w \in {"uint16_t", "USHORT", "WORD"} \/ s = <<"unsigned", SP, "short">> ->
            <<Prim("UShort")>>
      [] w \in {"int", "int32_t", "signed", "INT", "HRESULT"} -> <<Prim("Int")>>
      [] w \in {"unsigned", "uint32_t", "UINT", "DWORD"} \/ s = <<"unsigned", SP, "int">> ->
            <<Prim("UInt")>>
      [] w = "long" \/ s = <<"long", SP, "int">> ->
            IF windows THEN <<Prim("Int")>> ELSE <<Prim(ptrInt)>>
      [] s = <<"unsigned", SP, "long">> ->
            IF windows THEN <<Prim("UInt")>> ELSE <<Prim("ULong")>>
      [] w \in {"int64_t", "LONGLONG"} \/ s = <<"long", SP, "long">> -> <<Prim("Long")>>
      [] w \in {"uint64_t", "ULONGLONG"} \/ s = <<"unsigned", SP, "long", SP, "long">> ->
            <<Prim("ULong")>>
      [] w \in {"intptr_t", "ptrdiff_t", "ssize_t"} -> <<Prim(ptrInt)>>
      [] w \in {"uintptr_t", "size_t", "ULONG_PTR", "DWORD_PTR", "SIZE_T"} -> <<Prim(ptrUInt)>>
      [] w \in {"float", "FLOAT"} -> <<Prim("Float")>>
      [] w \in {"double", "DOUBLE"} -> <<Prim("Double")>>
      [] w \in {"LPCSTR", "LPSTR", "PCSTR", "PSTR"} -> <<Pointer(<<Prim("Char")>>)>>
      [] w \in {"LPCWSTR", "LPWSTR", "PCWSTR", "PWSTR"} -> <<Pointer(<<Prim("UShort")>>)>>
      [] w \in {"HWND", "HANDLE", "HINSTANCE", "HMODULE", "HDC", "HBRUSH", "HPEN", "HICON",
                "HCURSOR", "HMENU", "HFONT", "HBITMAP", "HRGN", "HGDIOBJ", "LPVOID",
                "PVOID", "LPCVOID"} -> <<Pointer(<<>>)>>
      [] w \in {"WPARAM", "LPARAM", "LRESULT"} -> <<Prim(ptrInt)>>
      [] w = "ATOM" -> <<Prim("UShort")>>
      [] OTHER -> <<>>

\* the table as compiled for the build the model describes
PrimitiveOf(s) == PrimitiveOn(s, cfg_windows, target_pointer_width)

\* a lookup cascade that asks the typedef table before the struct table
NamedType_typedef_first(s, R) ==
    IF StartsWith(s, <<"struct", SP>>) THEN Struct(Trim(Drop(s, 2)))
    ELSE IF StartsWith(s, <<"union", SP>>) THEN Union(Trim(Drop(s, 2)))
    ELSE IF StartsWith(s, <<"enum", SP>>) THEN Enum(Trim(Drop(s, 2)))
    ELSE IF s \in DOMAIN R.typedefs THEN R.typedefs[s]
    ELSE IF s \in DOMAIN R.structs THEN Struct(s)
    ELSE IF s \in DOMAIN R.enums THEN Enum(s)
    ELSE IF Len(s) = 1 /\ s[1] \in PointerConventionNames THEN Pointer(<<>>)
    ELSE Struct(s)

\* the registry lookup cascade of CType::parse (types.rs 239-278)
NamedType(s, R) ==
    IF StartsWith(s, <<"struct", SP>>) THEN Struct(Trim(Drop(s, 2)))
    ELSE IF StartsWith(s, <<"union", SP>>) THEN Union(Trim(Drop(s, 2)))
    ELSE IF StartsWith(s, <<"enum", SP>>) THEN Enum(Trim(Drop(s, 2)))
    ELSE IF s \in DOMAIN R.structs THEN Struct(s)
    ELSE IF s \in DOMAIN R.enums THEN Enum(s)
    ELSE IF s \in DOMAIN R.typedefs THEN R.typedefs[s]
    ELSE IF Len(s) = 1 /\ s[1] \in PointerConventionNames THEN Pointer(<<>>)
    ELSE Struct(s)

StripModifiers(s) ==
    LET a == Trim(s)
        b == Trim(StripPrefix(a, <<"const", SP>>))
        c == Trim(StripPrefix(b, <<"volatile", SP>>))
        d == Trim(StripPrefix(c, <<"static", SP>>))
    IN Trim(StripPrefix(d, <<"extern", SP>>))

\* CType::parse(s) against the registry R = [structs, enums, typedefs]
RECURSIVE CType_parse(_, _)
CType_parse(str, R) ==
    LET array(size, inner) ==
            IF size < 0 \/ inner = <<>> THEN <<>> ELSE <<Array(inner[1], size)>>
        sized(size_str) ==
            IF Len(size_str) = 1 /\ size_str[1] \in Digits THEN ParseUsize(size_str) ELSE -1
        at(s, bracket) ==
            array(sized(TrimEndMatches(Drop(s, bracket), "]")),
                  CType_parse(Trim(Take(s, bracket - 1)), R))
        pointer(inner) == IF inner = <<>> THEN <<>> ELSE <<Pointer(inner)>>
        pointee(base) ==
            IF base = <<"void">> \/ base = <<>> THEN <<Pointer(<<>>)>>
            ELSE pointer(CType_parse(base, R))
        named(s, prim) == IF prim # <<>> THEN prim ELSE <<NamedType(s, R)>>
        parse(s) ==
            IF s = <<>> THEN <<>>
            ELSE IF Contains(s, "[") THEN at(s, Find(s, "["))
            ELSE IF EndsWith(s, "*") THEN pointee(Trim(Front(s)))
            ELSE named(s, PrimitiveOf(s))
    IN parse(StripModifiers(str))

(***************************************************************************)
(* Declaration Parser (parser.rs): struct and union bodies.                *)
(***************************************************************************)
\* split_type_and_name: <<>> for None, else <<[name, type_str]>>
split_type_and_name(decl) ==
    LET result(name, type_str) ==
            IF name = <<>> THEN <<>>
            ELSE IF type_str = <<>> THEN <<[name |-> name, type_str |-> <<"int">>]>>
            ELSE <<[name |-> name, type_str |-> type_str]>>
        type_of(type_parts) ==
            Trim(Replace(Replace(Join(type_parts, SP), <<SP, "*">>, <<"*">>),
                         <<"*", SP>>, <<"*">>))
        stars(asterisks) == IF asterisks # <<>> THEN <<asterisks>> ELSE <<>>
        split(tokens) ==
            IF tokens = <<>> THEN <<>>
            ELSE result(TrimStartMatches(Last(tokens), "*"),
                        type_of(Front(tokens) \o stars(TakeWhile(Last(tokens), "*"))))
    IN split(SplitWhitespace(Trim(decl)))

\* the dimension loop of parse_field_decl (parser.rs 419-431)
RECURSIVE ArrayDims(_)
ArrayDims(remaining) ==
    LET dims(size, rest) == IF size >= 0 THEN <<size>> \o rest ELSE rest
        close(start, end) ==       \* end is 1-based inside remaining[start..]
            IF end = 0 THEN <<>>
            ELSE dims(ParseUsize(SubSeq(remaining, start + 1, start + end - 2)),
                      ArrayDims(Drop(remaining, start + end - 1)))
        open(start) ==
            IF start = 0 THEN <<>>
            ELSE close(start, Find(Drop(remaining, start - 1), "]"))
    IN open(Find(remaining, "["))

RECURSIVE WrapDims(_, _)
WrapDims(base, dims) ==
    IF dims = <<>> THEN base ELSE Array(WrapDims(base, Tail(dims)), Head(dims))

\* parse_field_decl: <<>> for None, else <<[name, ctype]>>
parse_field_decl(l, R) ==
    LET typed(nt) == IF nt = <<>> THEN <<>> ELSE CType_parse(nt[1].type_str, R)
        array(dims, nt, base) ==
            IF dims = <<>> \/ nt = <<>> \/ base = <<>> THEN <<>>
            ELSE <<[name |-> nt[1].name, ctype |-> WrapDims(base[1], dims)]>>
        array_of(dims, nt) == array(dims, nt, typed(nt))
        at(line, first_bracket) ==
            array_of(ArrayDims(Drop(line, first_bracket - 1)),
                     split_type_and_name(Trim(Take(line, first_bracket - 1))))
        plain(nt, ct) ==
            IF nt = <<>> \/ ct = <<>> THEN <<>>
            ELSE <<[name |-> nt[1].name, ctype |-> ct[1]]>>
        plain_of(nt) == plain(nt, typed(nt))
        field(line) ==
            IF line = <<>> THEN <<>>
            ELSE IF Contains(line, "[") THEN at(line, Find(line, "["))
            ELSE plain_of(split_type_and_name(line))
    IN field(Trim(l))

\* the comma split of expand_compact_fields, respecting brackets (263-282)
RECURSIVE CommaParts(_, _, _, _)
CommaParts(s, depth, cur, acc) ==
    IF s = <<>> THEN (IF Trim(cur) # <<>> THEN Append(acc, Trim(cur)) ELSE acc)
    ELSE LET c == Head(s) IN
         IF c = "[" THEN CommaParts(Tail(s), depth + 1, Append(cur, c), acc)
         ELSE IF c = "]" THEN CommaParts(Tail(s), depth - 1, Append(cur, c), acc)
         ELSE IF c = "," /\ depth = 0 THEN CommaParts(Tail(s), depth, <<>>, Append(acc, Trim(cur)))
         ELSE CommaParts(Tail(s), depth, Append(cur, c), acc)

RECURSIVE ParenSum(_)
ParenSum(s) == IF s = <<>> THEN 0
               ELSE (IF Head(s) = "(" THEN 1 ELSE IF Head(s) = ")" THEN -1 ELSE 0)
                    + ParenSum(Tail(s))

\* "name[..]" -> [name, suffix]
SplitAtBracket(w) ==
    IF Contains(w, "[")
    THEN [name |-> Take(w, Find(w, "[") - 1), suffix |-> Drop(w, Find(w, "[") - 1)]
    ELSE [name |-> w, suffix |-> <<>>]

RECURSIVE ExpandRest(_, _)
ExpandRest(parts, base_type) ==
    IF parts = <<>> THEN <<>>
    ELSE LET part == Trim(Head(parts)) IN
         IF part = <<>> THEN ExpandRest(Tail(parts), base_type)
         ELSE LET ptr == TakeWhile(part, "*")
                  na == SplitAtBracket(TrimStartMatches(part, "*"))
              IN <<base_type \o <<SP>> \o ptr \o na.name \o na.suffix>>
                 \o ExpandRest(Tail(parts), base_type)

\* one statement of expand_compact_fields: the field statements it becomes
ExpandStatement(statement) ==
    IF ~Contains(statement, ",") THEN <<statement>>
    ELSE IF ParenSum(statement) # 0 THEN <<statement>>
    ELSE
    LET parts == CommaParts(statement, 0, <<>>, <<>>) IN
    IF Len(parts) <= 1 THEN <<statement>>
    ELSE
    LET tokens == SplitWhitespace(parts[1]) IN
    IF tokens = <<>> THEN <<statement>>
    ELSE
    LET last_token == Last(tokens)
        ptr_prefix == TakeWhile(last_token, "*")
        na == SplitAtBracket(TrimStartMatches(last_token, "*"))
        base_type == IF Len(tokens) > 1 THEN Join(Front(tokens), SP) ELSE <<"int">>
    IN <<base_type \o <<SP>> \o ptr_prefix \o na.name \o na.suffix>>
       \o ExpandRest(Tail(parts), base_type)

RECURSIVE ExpandAll(_)
ExpandAll(stmts) ==
    IF stmts = <<>> THEN <<>>
    ELSE LET st == Trim(Head(stmts)) IN
         IF st = <<>> THEN ExpandAll(Tail(stmts))
         ELSE ExpandStatement(st) \o ExpandAll(Tail(stmts))

RECURSIVE JoinSeq(_, _)
JoinSeq(ws, sep) == IF ws = <<>> THEN <<>>
                    ELSE IF Len(ws) = 1 THEN Head(ws)
                    ELSE Head(ws) \o sep \o JoinSeq(Tail(ws), sep)

expand_compact_fields(body) == JoinSeq(ExpandAll(Split(body, ";")), <<";", SP>>)

\* the field loop of parse_struct_body: st = [fields, offset, max_align]
RECURSIVE LayoutFields(_, _, _, _)
LayoutFields(stmts, is_union, R, st) ==
    LET push(f, size, align, offset) ==
            LayoutFields(Tail(stmts), is_union, R,
                [fields |-> Append(st.fields,
                                   [name |-> f.name, ctype |-> f.ctype,
                                    offset |-> IF is_union THEN 0 ELSE offset]),
                 offset |-> IF is_union THEN offset ELSE offset + size,
                 max_align |-> Max(st.max_align, align)])
        place(f, size, align) ==
            push(f, size, align,
                 IF ~is_union /\ align > 0
                 THEN ((st.offset + align - 1) \div align) * align
                 ELSE st.offset)
        field(f) ==
            IF f = <<>> THEN LayoutFields(Tail(stmts), is_union, R, st)
            ELSE place(f[1], CType_size(f[1].ctype, R.structs),
                       CType_align(f[1].ctype, R.structs))
    IN IF stmts = <<>> THEN st ELSE field(parse_field_decl(Head(stmts), R))

\* the size of the first field only
MaxFieldSize_first(fields, S) ==
    IF fields = <<>> THEN 0 ELSE CType_size(Head(fields).ctype, S)

RECURSIVE MaxFieldSize(_, _)
MaxFieldSize(fields, S) ==
    IF fields = <<>> THEN 0
    ELSE Max(CType_size(Head(fields).ctype, S), MaxFieldSize(Tail(fields), S))

\* parse_struct_body without the final padding of the size
parse_struct_body_unpadded(name, body, is_union, R) ==
    LET def(st, size) ==
            [name |-> name, fields |-> st.fields, size |-> size, align |-> st.max_align,
             is_union |-> is_union, is_packed |-> FALSE]
        sized(st) ==
            def(st, IF is_union THEN MaxFieldSize(st.fields, R.structs) ELSE st.offset)
    IN sized(LayoutFields(Split(expand_compact_fields(body), ";"), is_union, R,
                          [fields |-> <<>>, offset |-> 0, max_align |-> 1]))

parse_struct_body(name, body, is_union, R) ==
    LET def(st, size) ==
            [name |-> name, fields |-> st.fields, size |-> size, align |-> st.max_align,
             is_union |-> is_union, is_packed |-> FALSE]
        sized(st) ==
            def(st, IF is_union THEN MaxFieldSize(st.fields, R.structs)
                    ELSE ((st.offset + st.max_align - 1) \div st.max_align) * st.max_align)
    IN sized(LayoutFields(Split(expand_compact_fields(body), ";"), is_union, R,
                          [fields |-> <<>>, offset |-> 0, max_align |-> 1]))

(***************************************************************************)
(* Declaration Parser: typedef struct/union, struct/union, typedef enum.   *)
(***************************************************************************)
\* HashMap::insert
Insert(m, key, v) == [x \in DOMAIN m \cup {key} |-> IF x = key THEN v ELSE m[x]]

RECURSIVE BraceDelta(_)
BraceDelta(s) == IF s = <<>> THEN 0
                 ELSE (IF Head(s) = "{" THEN 1 ELSE IF Head(s) = "}" THEN -1 ELSE 0)
                      + BraceDelta(Tail(s))

\* text after the last "}" of a line, trimmed of blanks and of the final ";"
AfterBrace(line) == Trim(TrimEndMatches(Trim(Drop(line, RFind(line, "}"))), ";"))

\* the accumulation loop shared by parse_typedef_struct (150-177) and
\* parse_typedef_enum (642-668): [i, body, name]
RECURSIVE AccumulateBraces(_, _, _, _)
AccumulateBraces(lines, i, body, brace_count) ==
    LET closed(line, b) ==
            [i |-> i, body |-> b,
             name |-> IF Contains(line, "}") THEN AfterBrace(line) ELSE <<>>]
        step(line, bc, b) ==
            IF bc = 0 /\ Contains(b, "{") THEN closed(line, b)
            ELSE AccumulateBraces(lines, i + 1, b, bc)
        accumulate(line) == step(line, brace_count + BraceDelta(line), body \o line \o <<NL>>)
    IN IF i > Len(lines) THEN [i |-> i, body |-> body, name |-> <<>>]
       ELSE accumulate(StripComment(lines[i]))

\* body[find('{') + 1 .. rfind('}')]
BraceInner(body) == SubSeq(body, Find(body, "{") + 1, RFind(body, "}") - 1)

\* parse_typedef_struct: [def |-> <<>> or <<d>>, consumed]; start is 1-based
parse_typedef_struct(lines, start, is_union, R) ==
    LET \* a declaration on one line is its own accumulated body
        multi(acc) ==
            IF Contains(acc.body, "{") /\ Contains(acc.body, "}")
            THEN [def |-> <<parse_struct_body(acc.name, BraceInner(acc.body), is_union, R)>>,
                  consumed |-> acc.i - start + 1]
            ELSE [def |-> <<>>, consumed |-> acc.i - start + 1]
        parse(first) ==
            IF Contains(first, "{") /\ Contains(first, "}")
            THEN multi([i |-> start, body |-> first, name |-> AfterBrace(first)])
            ELSE multi(AccumulateBraces(lines, start, <<>>, 0))
    IN parse(Trim(lines[start]))

\* after_prefix.split(|c| c == '{' || c == ' ').next()
RECURSIVE UntilBraceOrBlank(_)
UntilBraceOrBlank(s) ==
    IF s = <<>> \/ Head(s) \in {"{", SP} THEN <<>>
    ELSE <<Head(s)>> \o UntilBraceOrBlank(Tail(s))

parse_struct(lines, start, is_union, R) ==
    LET prefix == IF is_union THEN <<"union", SP>> ELSE <<"struct", SP>>
        named(r, name) ==
            IF r.def # <<>> /\ r.def[1].name = <<>> /\ name # <<>>
            THEN [def |-> <<[r.def[1] EXCEPT !.name = name]>>, consumed |-> r.consumed]
            ELSE r
        with_name(first, name) ==
            IF Contains(first, "{") /\ Contains(first, "}")
            THEN [def |-> <<parse_struct_body(name, BraceInner(first), is_union, R)>>,
                  consumed |-> 1]
            ELSE named(parse_typedef_struct(lines, start, is_union, R), name)
        parse(first) ==
            with_name(first,
                      Trim(UntilBraceOrBlank(IF StartsWith(first, prefix)
                                             THEN Drop(first, 2) ELSE <<>>)))
    IN parse(Trim(lines[start]))

\* i64 values of the numeric atoms the model's declarations use; <<>> is Err
HexAtoms == {"0x10", "0xFF"}
ParseI64(val_str) ==
    IF Len(val_str) # 1 THEN <<>>
    ELSE IF val_str[1] = "0x10" THEN <<16>>
    ELSE IF val_str[1] = "0xFF" THEN <<255>>
    ELSE IF \E n \in -2..16 : ToString(n) = val_str[1]
         THEN <<CHOOSE n \in -2..16 : ToString(n) = val_str[1]>>
    ELSE <<>>

\* an enum loop that numbers the entries by position, whatever value is written
RECURSIVE EnumLoop_counting(_, _, _)
EnumLoop_counting(items, current_value, values) ==
    LET valued(name) ==
            EnumLoop_counting(Tail(items), current_value + 1,
                              Insert(values, name, current_value))
        entry(item) ==
            IF item = <<>> THEN EnumLoop_counting(Tail(items), current_value, values)
            ELSE IF Contains(item, "=") THEN valued(Trim(Take(item, Find(item, "=") - 1)))
            ELSE valued(item)
    IN IF items = <<>> THEN values ELSE entry(Trim(Head(items)))

RECURSIVE EnumLoop(_, _, _)
EnumLoop(items, current_value, values) ==
    LET valued(name, val) == EnumLoop(Tail(items), val + 1, Insert(values, name, val))
        explicit(item, eq_pos) ==
            valued(Trim(Take(item, eq_pos - 1)),
                   UnwrapOr(ParseI64(Trim(Drop(item, eq_pos))), current_value))
        entry(item) ==
            IF item = <<>> THEN EnumLoop(Tail(items), current_value, values)
            ELSE IF Contains(item, "=") THEN explicit(item, Find(item, "="))
            ELSE valued(item, current_value)
    IN IF items = <<>> THEN values ELSE entry(Trim(Head(items)))

parse_enum_values(body) == EnumLoop(Split(body, ","), 0, EmptyMap)

\* parse_typedef_enum: [name, values: <<>> or <<map>>, consumed]
parse_typedef_enum(lines, start) ==
    LET parse(acc) ==
            IF Contains(acc.body, "{") /\ Contains(acc.body, "}")
            THEN [name |-> acc.name, values |-> <<parse_enum_values(BraceInner(acc.body))>>,
                  consumed |-> acc.i - start + 1]
            ELSE [name |-> <<>>, values |-> <<>>, consumed |-> acc.i - start + 1]
    IN parse(AccumulateBraces(lines, start, <<>>, 0))

(***************************************************************************)
(* Declaration Parser: typedefs and function prototypes.                   *)
(***************************************************************************)
\* atoms whose upper-cased text contains a stdcall / fastcall marker (607-618)
StdcallMarkers == {"WINAPI", "__stdcall", "STDCALL", "CALLBACK", "APIENTRY", "PASCAL"}
FastcallMarkers == {"FASTCALL", "__fastcall"}

\* the argument loop of parse_func_ptr_typedef (579-603)
RECURSIVE FuncPtrArgs(_, _)
FuncPtrArgs(raw, R) ==
    LET fallback(sub) == IF sub # <<>> THEN sub[1] ELSE Prim("Void")
        typed(arg, ctype, rest) ==
            IF ctype # <<>> THEN <<ctype[1]>> \o rest
            ELSE IF Contains(arg, SP)
                 THEN <<fallback(CType_parse(Trim(Take(arg, RFind(arg, SP) - 1)), R))>> \o rest
            ELSE rest
        one(arg, rest) ==
            IF arg = <<>> THEN rest ELSE typed(arg, CType_parse(arg, R), rest)
    IN IF raw = <<>> THEN <<>>
       ELSE one(Trim(Head(raw)), FuncPtrArgs(Tail(raw), R))

TypedefContent(line) == Trim(TrimEndMatches(Drop(line, 2), ";"))

\* parse_func_ptr_typedef: <<>> or <<[name, ctype]>>
parse_func_ptr_typedef(line, R) ==
    LET conv(inner) ==
            IF \E i \in 1..Len(inner) : inner[i] \in StdcallMarkers THEN "Stdcall"
            ELSE IF \E i \in 1..Len(inner) : inner[i] \in FastcallMarkers THEN "Fastcall"
            ELSE "C"
        args(args_str) ==
            IF Trim(args_str) # <<>> /\ Trim(args_str) # <<"void">>
            THEN FuncPtrArgs(Split(args_str, ","), R) ELSE <<>>
        built(content, inner, words, ret_type, args_start) ==
            IF ~Contains(inner, "*") \/ words = <<>> \/ ret_type = <<>> \/ args_start = 0
            THEN <<>>
            ELSE <<[name |-> TrimStartMatches(Last(words), "*"),
                    ctype |-> Pointer(<<Function(
                        [ret |-> ret_type[1],
                         args |-> args(SubSeq(content, args_start + 1,
                                              RFind(content, ")") - 1)),
                         variadic |-> FALSE, conv |-> conv(inner)])>>)]>>
        after(ptr_end, a0) == IF a0 = 0 THEN 0 ELSE a0 + ptr_end - 1
        group(content, inner, ptr_start, ptr_end) ==
            built(content, inner, SplitWhitespace(inner),
                  CType_parse(Trim(Take(content, ptr_start - 1)), R),
                  after(ptr_end, Find(Drop(content, ptr_end - 1), "(")))
        close(content, ptr_start, k) ==
            IF k = 0 THEN <<>>
            ELSE group(content, SubSeq(content, ptr_start + 1, k + ptr_start - 2),
                       ptr_start, k + ptr_start - 1)
        open(content, ptr_start) ==
            IF ptr_start = 0 THEN <<>>
            ELSE close(content, ptr_start, Find(Drop(content, ptr_start - 1), ")"))
        parse(content) == open(content, Find(content, "("))
    IN parse(TypedefContent(line))

\* parse_simple_typedef: <<>> or <<[name, ctype]>>
parse_simple_typedef(line, R) ==
    LET alias(name_clean, ctype) ==
            IF name_clean = <<>> \/ ctype = <<>> THEN <<>>
            ELSE <<[name |-> name_clean, ctype |-> ctype[1]]>>
        simple(parts) ==
            IF parts = <<>> THEN <<>>
            ELSE alias(TrimEndMatches(TrimStartMatches(Last(parts), "*"), "*"),
                       CType_parse(Join(Front(parts), SP)
                                   \o (IF StartsWith(Last(parts), <<"*">>)
                                       THEN <<"*">> ELSE <<>>), R))
        choose(func_ptr) ==
            IF func_ptr # <<>> THEN func_ptr
            ELSE simple(SplitWhitespace(TypedefContent(line)))
    IN choose(IF Contains(line, "(") /\ Contains(line, ")")
              THEN parse_func_ptr_typedef(line, R) ELSE <<>>)

\* the calling-convention keyword of a prototype's text before "(" (722-736)
ConvKeyword(before_paren) ==
    IF Contains(before_paren, "__stdcall") THEN "__stdcall"
    ELSE IF Contains(before_paren, "WINAPI") THEN "WINAPI"
    ELSE IF Contains(before_paren, "CALLBACK") THEN "CALLBACK"
    ELSE IF Contains(before_paren, "APIENTRY") THEN "APIENTRY"
    ELSE IF Contains(before_paren, "PASCAL") THEN "PASCAL"
    ELSE IF Contains(before_paren, "__fastcall") THEN "__fastcall"
    ELSE ""

\* the split of the parameter list on top-level commas (757-775)
RECURSIVE SplitArgs(_, _, _, _)
SplitArgs(s, paren_depth, current_arg, raw_args) ==
    IF s = <<>>
    THEN (IF Trim(current_arg) # <<>> THEN Append(raw_args, Trim(current_arg)) ELSE raw_args)
    ELSE LET c == Head(s) IN
         IF c = "(" THEN SplitArgs(Tail(s), paren_depth + 1, Append(current_arg, c), raw_args)
         ELSE IF c = ")"
              THEN SplitArgs(Tail(s), paren_depth - 1, Append(current_arg, c), raw_args)
         ELSE IF c = "," /\ paren_depth = 0
              THEN SplitArgs(Tail(s), paren_depth, <<>>, Append(raw_args, Trim(current_arg)))
         ELSE SplitArgs(Tail(s), paren_depth, Append(current_arg, c), raw_args)

\* an argument loop that never recognises "..."
HasEllipsis_never(raw_args) == FALSE

\* whether the argument loop of parse_func_decl sets variadic (783-786)
RECURSIVE HasEllipsis(_)
HasEllipsis(raw_args) ==
    IF raw_args = <<>> THEN FALSE
    ELSE Trim(Head(raw_args)) = <<"...">> \/ HasEllipsis(Tail(raw_args))

\* the argument loop of parse_func_decl (777-815): the registered (name, type) pairs
RECURSIVE FuncArgs(_, _)
FuncArgs(raw_args, R) ==
    LET typed(arg_name, ctype, rest) ==
            IF ctype = <<>> THEN rest
            ELSE <<[name |-> arg_name, ctype |-> ctype[1]]>> \o rest
        split(arg, parts, rest) ==
            IF arg = <<>> \/ arg = <<"void">> \/ arg = <<"...">> \/ parts = <<>> THEN rest
            ELSE typed(TrimStartMatches(Last(parts), "*"),
                       CType_parse((IF Len(parts) > 1 THEN Join(Front(parts), SP)
                                    ELSE parts[1])
                                   \o (IF StartsWith(Last(parts), <<"*">>)
                                       THEN <<"*">> ELSE <<>>), R),
                       rest)
        one(arg, rest) == split(arg, SplitWhitespace(arg), rest)
    IN IF raw_args = <<>> THEN <<>>
       ELSE one(Trim(Head(raw_args)), FuncArgs(Tail(raw_args), R))

\* parse_func_decl: <<>> or <<FuncSig>>
parse_func_decl(l, R) ==
    LET conv(kw) ==
            IF kw = "" THEN "C" ELSE IF kw = "__fastcall" THEN "Fastcall" ELSE "Stdcall"
        sig(parts, kw, raw_args) ==
            IF parts = <<>> THEN <<>>
            ELSE <<[name |-> TrimStartMatches(Last(parts), "*"),
                    ret |-> UnwrapOr(CType_parse(Join(Front(parts), SP)
                                                 \o (IF StartsWith(Last(parts), <<"*">>)
                                                     THEN <<"*">> ELSE <<>>), R),
                                     Prim("Int")),
                    args |-> FuncArgs(raw_args, R), variadic |-> HasEllipsis(raw_args),
                    conv |-> conv(kw)]>>
        cleaned(before_paren, kw, raw_args) ==
            sig(SplitWhitespace(SelectSeq(before_paren, LAMBDA a : a # kw)), kw, raw_args)
        head(before_paren, raw_args) ==
            cleaned(before_paren, ConvKeyword(before_paren), raw_args)
        parens(line, paren_start, paren_end) ==
            IF paren_start = 0 \/ paren_end = 0 THEN <<>>
            ELSE head(Trim(Take(line, paren_start - 1)),
                      SplitArgs(SubSeq(line, paren_start + 1, paren_end - 1), 0, <<>>, <<>>))
        parse(line) == parens(line, Find(line, "("), RFind(line, ")"))
    IN parse(Trim(TrimEndMatches(Trim(l), ";")))

(***************************************************************************)
(* Registry (registry.rs) and parse_cdef.  R = [structs, enums, typedefs,  *)
(* funcs] is the registry's content.                                       *)
(***************************************************************************)
\* an add_struct that keeps the entry a name already has
add_struct_absent(R, def) ==
    IF def.name \in DOMAIN R.structs THEN R
    ELSE [R EXCEPT !.structs = Insert(R.structs, def.name, def)]

add_struct(R, def) == [R EXCEPT !.structs = Insert(R.structs, def.name, def)]
add_enum(R, name, values) == [R EXCEPT !.enums = Insert(R.enums, name, values)]
add_typedef(R, name, ctype) == [R EXCEPT !.typedefs = Insert(R.typedefs, name, ctype)]
add_func(R, sig) == [R EXCEPT !.funcs = Insert(R.funcs, sig.name, sig)]

\* the accumulation of a prototype's continuation lines (78-96): [decl, i]
RECURSIVE AccumulateDecl(_, _, _)
AccumulateDecl(lines, i, decl) ==
    LET step(next_line, d) ==
            IF Contains(next_line, ";") THEN [decl |-> d, i |-> i]
            ELSE AccumulateDecl(lines, i + 1, d)
        append(next_line) == step(next_line, decl \o <<SP>> \o next_line)
    IN IF i > Len(lines) THEN [decl |-> decl, i |-> i]
       ELSE append(Trim(lines[i]))

IsFuncLine(line) ==
    /\ ~StartsWith(line, <<"struct">>)
    /\ ~StartsWith(line, <<"union">>)
    /\ ~StartsWith(line, <<"enum">>)
    /\ ~StartsWith(line, <<"typedef">>)
    /\ Contains(line, "(")

\* the loop of parse_cdef from line i (1-based) with registry R: the final registry
RECURSIVE CdefLoop(_, _, _)
CdefLoop(lines, i, R) ==
    LET struct(r) ==
            CdefLoop(lines, i + r.consumed,
                     IF r.def # <<>> THEN add_struct(R, r.def[1]) ELSE R)
        enum(r) ==
            CdefLoop(lines, i + r.consumed,
                     IF r.values # <<>> THEN add_enum(R, r.name, r.values[1]) ELSE R)
        typedef(r) ==
            CdefLoop(lines, i + 1,
                     IF r # <<>> THEN add_typedef(R, r[1].name, r[1].ctype) ELSE R)
        func(next, sig) ==
            CdefLoop(lines, next, IF sig # <<>> THEN add_func(R, sig[1]) ELSE R)
        proto(acc) == func(acc.i, parse_func_decl(acc.decl, R))
        decl(line) ==
            IF line = <<>> THEN CdefLoop(lines, i + 1, R)
            ELSE IF StartsWith(line, <<"#">>) THEN CdefLoop(lines, i + 1, R)
            ELSE IF (StartsWith(line, <<"typedef", SP, "struct">>)
                     \/ StartsWith(line, <<"typedef", SP, "union">>)) /\ Contains(line, "{")
            THEN struct(parse_typedef_struct(
                            lines, i, StartsWith(line, <<"typedef", SP, "union">>), R))
            ELSE IF StartsWith(line, <<"typedef", SP, "enum">>)
            THEN enum(parse_typedef_enum(lines, i))
            ELSE IF StartsWith(line, <<"typedef", SP>>)
            THEN typedef(parse_simple_typedef(line, R))
            ELSE IF IsFuncLine(line)
            THEN proto(IF ~Contains(line, ";") THEN AccumulateDecl(lines, i + 1, line)
                       ELSE [decl |-> line, i |-> i + 1])
            ELSE IF StartsWith(line, <<"struct", SP>>) \/ StartsWith(line, <<"union", SP>>)
            THEN struct(parse_struct(lines, i, StartsWith(line, <<"union", SP>>), R))
            ELSE CdefLoop(lines, i + 1, R)
    IN IF i > Len(lines) THEN R ELSE decl(StripComment(lines[i]))

parse_cdef(cdef, R) == CdefLoop(Lines(cdef), 1, R)

Registry == [structs |-> structs, enums |-> enums, typedefs |-> typedefs, funcs |-> funcs]

(***************************************************************************)
(* cdef inputs: declarations are built from a description and rendered to  *)
(* text; the description is what the claims compare the registry with.     *)
(***************************************************************************)
MaxFields == 2

\* field declarators: base type, pointer marker, array suffix
FieldKinds == <<
    [type |-> <<"char">>,   ptr |-> <<>>,    suffix |-> <<>>],
    [type |-> <<"int">>,    ptr |-> <<>>,    suffix |-> <<>>],
    [type |-> <<"double">>, ptr |-> <<>>,    suffix |-> <<>>],
    [type |-> <<"char">>,   ptr |-> <<"*">>, suffix |-> <<>>],
    [type |-> <<"char">>,   ptr |-> <<>>,    suffix |-> <<"[", "3", "]">>],
    [type |-> <<"Inner">>,  ptr |-> <<>>,    suffix |-> <<>>] >>
FieldNames == <<"a", "b", "c", "d">>

FieldLists == UNION {[1..n -> 1..Len(FieldKinds)] : n \in 0..MaxFields}
InnerLists == {<<1>>, <<2>>, <<3, 1>>}

RECURSIVE RenderFields(_, _, _)
RenderFields(fl, i, sep) ==
    IF i > Len(fl) THEN <<>>
    ELSE LET k == FieldKinds[fl[i]] IN
         <<SP>> \o k.type \o <<SP>> \o k.ptr \o <<FieldNames[i]>> \o k.suffix \o <<";">>
         \o sep \o RenderFields(fl, i + 1, sep)

\* a struct or union declaration in one of the forms the parser accepts
RenderStruct(d) ==
    LET kw == IF d.is_union THEN "union" ELSE "struct" IN
    CASE d.form = "typedef1" ->
            <<"typedef", SP, kw, SP, "{">> \o RenderFields(d.fields, 1, <<>>)
            \o <<SP, "}", SP, d.name, ";">>
      [] d.form = "typedefN" ->
            <<"typedef", SP, kw, SP, "{", NL>> \o RenderFields(d.fields, 1, <<NL>>)
            \o <<"}", SP, d.name, ";">>
      [] d.form = "tagN" ->
            <<kw, SP, d.name, SP, "{", NL>> \o RenderFields(d.fields, 1, <<NL>>)
            \o <<"}", ";">>

StructDecls ==
    [kind : {"struct"}, name : {"S"}, form : {"typedef1"},
     is_union : {FALSE}, fields : FieldLists]
    \cup [kind : {"struct"}, name : {"S"}, form : {"tagN"},
          is_union : BOOLEAN, fields : InnerLists]
    \cup [kind : {"struct"}, name : {"Inner"}, form : {"typedefN"},
          is_union : {FALSE}, fields : InnerLists]

memVars == <<boxes, allocs, handles>>
vars == <<structs, enums, typedefs, funcs, lastBlock, memVars, lastCall, cbVars, threadVars, moreVars>>

Init ==
    /\ structs = EmptyMap
    /\ enums = EmptyMap
    /\ typedefs = EmptyMap
    /\ funcs = EmptyMap
    /\ lastBlock = <<>>
    /\ boxes = <<>>
    /\ allocs = <<>>
    /\ handles = {}
    /\ lastCall = <<>>
    /\ callbacks = <<>>
    /\ lastTramp = <<>>
    /\ threads = [t \in Threads |-> [pc |-> "start", def |-> <<>>, table |-> EmptyMap]]
    /\ lock = <<>>
    /\ seen = <<>>
    /\ typeProbe = <<>>
    /\ lastBatch = <<>>
    /\ added = <<>>
    /\ lastIndex = <<>>
    /\ heap = <<>>
    /\ ffiOp = <<>>
    /\ lastSlots = <<>>
    /\ signal = [conns |-> <<>>, to_remove |-> <<>>, firing |-> FALSE]
    /\ fires = <<>>
    /\ connections = <<>>

\* the registry after the call
SetRegistry(R) ==
    /\ structs' = R.structs
    /\ enums' = R.enums
    /\ typedefs' = R.typedefs
    /\ funcs' = R.funcs

\* ffi.cdef(text) (lib.rs 26-32): parse_cdef over the whole text
CdefText(text) == SetRegistry(parse_cdef(text, Registry))

\* cdef of one struct declaration; the layout properties are about the step,
\* so the input is not recorded
CdefStruct ==
    \E d \in StructDecls :
        /\ CdefText(RenderStruct(d))
        /\ UNCHANGED <<lastBlock, memVars, lastCall, cbVars, moreVars, threadVars>>

NextLayout == CdefStruct
SpecLayout == Init /\ [][NextLayout]_vars

(***************************************************************************)
(* Struct layout                                                           *)
(***************************************************************************)
RECURSIVE MaxFieldAlign(_, _)
MaxFieldAlign(fields, S) ==
    IF fields = <<>> THEN 1
    ELSE Max(CType_align(Head(fields).ctype, S), MaxFieldAlign(Tail(fields), S))

FieldEnd(f, S) == f.offset + CType_size(f.ctype, S)
FieldTypes(def) == [i \in 1..Len(def.fields) |-> def.fields[i].ctype]
FieldOffsets(def) == [i \in 1..Len(def.fields) |-> def.fields[i].offset]

\* the layout of def, with field sizes and alignments resolved in the struct
\* table S
LayoutOK(def, S) ==
    /\ \A i \in 1..Len(def.fields) :
          /\ def.fields[i].offset % CType_align(def.fields[i].ctype, S) = 0
          /\ def.fields[i].name = <<FieldNames[i]>>
          /\ \A j \in (i + 1)..Len(def.fields) :
                FieldEnd(def.fields[i], S) <= def.fields[j].offset
    /\ def.align = MaxFieldAlign(def.fields, S)
    /\ def.align >= 1
    /\ def.size % def.align = 0
    /\ def.fields # <<>> => def.size >= FieldEnd(Last(def.fields), S)

LayoutExamplesOK(def) ==
    /\ FieldTypes(def) = <<Prim("Int"), Prim("Int")>>
          => FieldOffsets(def) = <<0, 4>> /\ def.size = 8 /\ def.align = 4
    /\ FieldTypes(def) = <<Prim("Char"), Prim("Int")>>
          => FieldOffsets(def) = <<0, 4>> /\ def.size = 8

\* the struct entries a step has written
Registered(n) == n \in DOMAIN structs' /\ (n \in DOMAIN structs => structs'[n] # structs[n])

\* C1: every non-union struct that a cdef call registers has each field at a
\* multiple of the field's alignment, the fields in declaration order without
\* overlap, alignment equal to the largest field alignment (at least 1), and a
\* size that is a multiple of the alignment and not less than the end of the
\* last field, with sizes and alignments resolved at parse time; {int a; int b;}
\* gives offsets 0 and 4, size 8, alignment 4, and {char a; int b;} puts b at 4
\* with size 8.
C1_StructLayout ==
    [][\A n \in DOMAIN structs' :
          Registered(n) /\ ~structs'[n].is_union
             => LayoutOK(structs'[n], structs) /\ LayoutExamplesOK(structs'[n])]_vars

\* a struct whose second field needed padding has been registered
C1_Witness ==
    /\ <<"S">> \in DOMAIN structs
    /\ ~structs[<<"S">>].is_union
    /\ FieldTypes(structs[<<"S">>]) = <<Prim("Char"), Prim("Double")>>
    /\ FieldOffsets(structs[<<"S">>]) = <<0, 8>>
    /\ structs[<<"S">>].size = 16

(***************************************************************************)
(* Owned memory (memory.rs): ffi.new, ffi.typeof handles, ffi.cast, and    *)
(* the destruction of a CBox.                                              *)
(***************************************************************************)
MaxBoxes == 2

\* the struct S declared with one field of a type of alignment 1, 4 or 8
MemDecls ==
    [kind : {"struct"}, name : {"S"}, form : {"typedef1"},
     is_union : {FALSE}, fields : {<<1>>, <<2>>, <<3>>}]
MemTypeNames == {<<"S">>, <<"int">>, <<"struct", SP, "S">>}

\* CBox::new: the region is allocated with the size and alignment of the type
\* as the registry gives them now; only the size is kept in the box
CBox_new(ctype) ==
    LET size == Max(CType_size(ctype, structs), 1)
        align == Max(CType_align(ctype, structs), 1)
    IN /\ allocs' = Append(allocs, [size |-> size, align |-> align, frees |-> 0,
                                    free_size |-> 0, free_align |-> 0])
       /\ boxes' = Append(boxes, [ptr |-> Len(allocs) + 1, size |-> size,
                                  ctype |-> ctype, owned |-> TRUE, dropped |-> FALSE])

\* a from_raw whose box owns the region whatever the caller says
CBox_from_raw_owning(ptr, ctype, owned) ==
    boxes' = Append(boxes, [ptr |-> ptr, size |-> CType_size(ctype, structs),
                            ctype |-> ctype, owned |-> TRUE, dropped |-> FALSE])

\* CBox::from_raw
CBox_from_raw(ptr, ctype, owned) ==
    boxes' = Append(boxes, [ptr |-> ptr, size |-> CType_size(ctype, structs),
                            ctype |-> ctype, owned |-> owned, dropped |-> FALSE])

CdefMem ==
    \E d \in MemDecls :
        /\ CdefText(RenderStruct(d))
        /\ UNCHANGED <<lastBlock, memVars, lastCall, cbVars, moreVars, threadVars>>

\* ffi.new(type_name): an incomplete type (size 0) is an error
ffi_new_type(tn) ==
    LET ctype == CType_parse(tn, Registry) IN
    /\ Len(boxes) < MaxBoxes
    /\ IF ctype = <<>> \/ CType_size(ctype[1], structs) = 0
       THEN UNCHANGED <<boxes, allocs>>
       ELSE CBox_new(ctype[1])
    /\ UNCHANGED <<regVars, lastBlock, handles, lastCall, cbVars, moreVars, threadVars>>

ffi_new == \E tn \in MemTypeNames : ffi_new_type(tn)

\* ffi.typeof(type_name): the handle keeps the type as parsed now
ffi_typeof_type(tn) ==
    LET ctype == CType_parse(tn, Registry) IN
    /\ handles' = IF ctype = <<>> THEN handles
                  ELSE handles \cup {[ctype |-> ctype[1], name |-> tn]}
    /\ UNCHANGED <<regVars, lastBlock, boxes, allocs, lastCall, cbVars, moreVars, threadVars>>

ffi_typeof == \E tn \in MemTypeNames : ffi_typeof_type(tn)

\* calling a typeof handle: CBox::new without the size check of ffi.new
CTypeWrapper_call ==
    \E h \in handles :
        /\ Len(boxes) < MaxBoxes
        /\ CBox_new(h.ctype)
        /\ UNCHANGED <<regVars, lastBlock, handles, lastCall, cbVars, moreVars, threadVars>>

\* ffi.cast(type_name, value) with the address ptr taken from value: a box
\* that does not own the region it points to
ffi_cast_ptr(tn, ptr) ==
    LET ctype == CType_parse(tn, Registry) IN
    /\ Len(boxes) < MaxBoxes
    /\ IF ctype = <<>> THEN UNCHANGED boxes
       ELSE CBox_from_raw(ptr, ctype[1], FALSE)
    /\ UNCHANGED <<regVars, lastBlock, allocs, handles, lastCall, cbVars, moreVars, threadVars>>

\* ffi.cast(type_name, box)
ffi_cast ==
    \E tn \in MemTypeNames, b \in 1..Len(boxes) :
        ~boxes[b].dropped /\ ffi_cast_ptr(tn, boxes[b].ptr)

\* Drop for CBox: an owned box releases its region with the kept size and with
\* the alignment its type has in the registry at the time of the drop
CBox_drop ==
    \E b \in 1..Len(boxes) :
        /\ ~boxes[b].dropped
        /\ boxes' = [boxes EXCEPT ![b].dropped = TRUE]
        /\ IF boxes[b].owned /\ boxes[b].ptr # 0
           THEN allocs' = [allocs EXCEPT
                    ![boxes[b].ptr].frees = @ + 1,
                    ![boxes[b].ptr].free_size = Max(boxes[b].size, 1),
                    ![boxes[b].ptr].free_align =
                        Max(CType_align(boxes[b].ctype, structs), 1)]
           ELSE UNCHANGED allocs
        /\ UNCHANGED <<regVars, lastBlock, handles, lastCall, cbVars, moreVars, threadVars>>

NextMem == CdefMem \/ ffi_new \/ ffi_typeof \/ CTypeWrapper_call \/ ffi_cast \/ CBox_drop
SpecMem == Init /\ [][NextMem]_vars

\* the box that owns region a
Owner(a) == CHOOSE b \in 1..Len(boxes) : boxes[b].owned /\ boxes[b].ptr = a

\* C2: an owned region is released exactly once, when its box is destroyed,
\* with the size and the alignment it was allocated with, whatever cdef calls
\* happened in between.
C2_ReleasedAsAllocated ==
    \A a \in 1..Len(allocs) :
        /\ allocs[a].frees = IF boxes[Owner(a)].dropped THEN 1 ELSE 0
        /\ allocs[a].frees > 0 =>
              /\ allocs[a].free_size = allocs[a].size
              /\ allocs[a].free_align = allocs[a].align

(***************************************************************************)
(* cdef blocks of several declarations, some of which the parser cannot    *)
(* handle.                                                                 *)
(***************************************************************************)
MaxDecls == 2

\* the declarations a block is made of; table and name say where a
\* well-formed declaration is registered
BlockDecls == <<
    [wellformed |-> FALSE, table |-> "", name |-> <<>>,
     text |-> <<"struct", SP, "Foo", SP, "*", "make", "(", "void", ")", ";">>],
    [wellformed |-> FALSE, table |-> "", name |-> <<>>,
     text |-> <<"typedef", SP, "enum", SP, "Color", SP, "Color", ";">>],
    [wellformed |-> FALSE, table |-> "", name |-> <<>>,
     text |-> <<"?", "?", SP, "?", ";">>],
    [wellformed |-> TRUE, table |-> "funcs", name |-> <<"add">>,
     text |-> <<"int", SP, "add", "(", "int", SP, "a", ",", SP, "int", SP, "b", ")", ";">>],
    [wellformed |-> TRUE, table |-> "structs", name |-> <<"P">>,
     text |-> <<"typedef", SP, "struct", SP, "{", SP, "int", SP, "x", ";", SP, "}",
                SP, "P", ";">>],
    [wellformed |-> TRUE, table |-> "typedefs", name |-> <<"myint">>,
     text |-> <<"typedef", SP, "int", SP, "myint", ";">>] >>

Blocks == UNION {[1..n -> 1..Len(BlockDecls)] : n \in 1..MaxDecls}

\* the text of a block: one declaration per line
RECURSIVE RenderBlock(_)
RenderBlock(b) ==
    IF b = <<>> THEN <<>>
    ELSE BlockDecls[Head(b)].text \o <<NL>> \o RenderBlock(Tail(b))

CdefBlock ==
    \E b \in Blocks :
        /\ CdefText(RenderBlock(b))
        /\ lastBlock' = b
        /\ UNCHANGED <<memVars, lastCall, cbVars, moreVars, threadVars>>

NextBlock == CdefBlock
SpecBlock == Init /\ [][NextBlock]_vars

IsRegistered(d) ==
    CASE d.table = "funcs" -> d.name \in DOMAIN funcs
      [] d.table = "structs" -> d.name \in DOMAIN structs
      [] d.table = "typedefs" -> d.name \in DOMAIN typedefs

\* C8: in the block of the last cdef call, every well-formed declaration that
\* follows a declaration the parser cannot handle is registered.
C8_SkippedOnItsOwn ==
    \A i \in 1..Len(lastBlock), j \in 1..Len(lastBlock) :
        i < j /\ ~BlockDecls[lastBlock[i]].wellformed /\ BlockDecls[lastBlock[j]].wellformed
            => IsRegistered(BlockDecls[lastBlock[j]])

(***************************************************************************)
(* cdef of function prototypes.                                            *)
(***************************************************************************)
MaxParams == 2

\* named parameters: the text of the type, the pointer marker, the C type
ParamKinds == <<
    [type |-> <<"int">>, ptr |-> <<>>, ctype |-> Prim("Int")],
    [type |-> <<"double">>, ptr |-> <<>>, ctype |-> Prim("Double")],
    [type |-> <<"const", SP, "char">>, ptr |-> <<"*">>,
     ctype |-> Pointer(<<Prim("Char")>>)],
    [type |-> <<"unsigned", SP, "int">>, ptr |-> <<>>, ctype |-> Prim("UInt")] >>
ParamLists == UNION {[1..n -> 1..Len(ParamKinds)] : n \in 0..MaxParams}

\* int printf(const char *fmt, ...);
PrintfDecl ==
    [ret |-> <<"int">>, name |-> "printf", params |-> <<3>>, pnames |-> <<"fmt">>,
     variadic |-> TRUE]
ProtoDecls ==
    [ret : {<<"int">>, <<"void">>}, name : {"f"}, params : ParamLists,
     pnames : {FieldNames}, variadic : BOOLEAN]
    \cup {PrintfDecl}

RECURSIVE RenderParams(_, _)
RenderParams(d, i) ==
    IF i > Len(d.params) THEN (IF d.variadic THEN <<"...">> ELSE <<>>)
    ELSE ParamKinds[d.params[i]].type \o <<SP>> \o ParamKinds[d.params[i]].ptr
         \o <<d.pnames[i]>>
         \o (IF i < Len(d.params) \/ d.variadic THEN <<",", SP>> ELSE <<>>)
         \o RenderParams(d, i + 1)

RenderProto(d) ==
    d.ret \o <<SP, d.name, "(">>
    \o (IF d.params = <<>> /\ ~d.variadic THEN <<"void">> ELSE RenderParams(d, 1))
    \o <<")", ";">>

CdefProto ==
    \E d \in ProtoDecls :
        /\ CdefText(RenderProto(d))
        /\ lastBlock' = <<d>>
        /\ UNCHANGED <<memVars, lastCall, cbVars, moreVars, threadVars>>

NextProto == CdefProto
SpecProto == Init /\ [][NextProto]_vars

\* the signature registered for the prototype of the last cdef call
LastSig == funcs[<<lastBlock[1].name>>]

\* C10: a prototype whose parameter list ends with "..." is registered as
\* variadic with the "..." not counted as a parameter, a prototype without it
\* is registered as not variadic, and int printf(const char *fmt, ...) has
\* exactly one fixed parameter, of type pointer to char.
C10_VariadicDetection ==
    lastBlock # <<>> =>
        /\ <<lastBlock[1].name>> \in DOMAIN funcs
        /\ LastSig.variadic = lastBlock[1].variadic
        /\ Len(LastSig.args) = Len(lastBlock[1].params)
        /\ lastBlock[1] = PrintfDecl =>
              LastSig.args = <<[name |-> <<"fmt">>, ctype |-> Pointer(<<Prim("Char")>>)]>>

\* printf has been declared and is registered as variadic with one parameter
C10_Witness ==
    /\ lastBlock = <<PrintfDecl>>
    /\ LastSig.variadic
    /\ Len(LastSig.args) = 1

(***************************************************************************)
(* Native calls (call.rs).  A host value is a record [k, v]; a double is   *)
(* represented by twice its value, so that 2.5 is 5 and the integer 4      *)
(* converted to a double is 8.  A native function is not interpreted: a    *)
(* call is the record of the address and of the C values it received, and  *)
(* its raw result is that record.                                          *)
(***************************************************************************)
MaxArgs == 3

LuaInteger(i) == [k |-> "Integer", v |-> i]
LuaNumber(x2) == [k |-> "Number", v |-> x2]
LuaString(str) == [k |-> "String", v |-> str]
LuaNil == [k |-> "Nil", v |-> 0]

\* mlua Value::as_i32: Some only for an Integer that fits
as_i32(val) ==
    IF val.k = "Integer" /\ val.v >= -2147483647 - 1 /\ val.v <= 2147483647
    THEN <<val.v>> ELSE <<>>
\* mlua Value::as_f64 = as_number: Some only for a Number
as_f64(val) == IF val.k = "Number" THEN <<val.v>> ELSE <<>>
\* get_f64 of the __call handler: a Number, or an Integer converted
get_f64(val) ==
    CASE val.k = "Number" -> <<val.v>>
      [] val.k = "Integer" -> <<2 * val.v>>
      [] OTHER -> <<>>

\* prepare_arg: the C value written to the argument's slot
prepare_arg(val, ctype) ==
    CASE ctype.k \in {"Int", "Enum"} -> [t |-> "i32", v |-> UnwrapOr(as_i32(val), 0)]
      [] ctype.k = "Double" -> [t |-> "f64", v |-> UnwrapOr(as_f64(val), 0)]
      [] ctype.k = "Pointer" ->
            IF ctype.inner = <<Prim("Char")>>
            THEN [t |-> "ptr", v |-> IF val.k = "String" THEN <<"cstr", val.v>> ELSE <<>>]
            ELSE [t |-> "ptr", v |-> IF val.k \in {"LightUserData", "Integer"}
                                     THEN <<"addr", val.v>> ELSE <<>>]
      [] OTHER -> [t |-> "usize", v |-> 0]

\* the host value of a native result read as an int / as a double
IntegerOfI32(raw) == [k |-> "Integer", v |-> <<"i32", raw>>]
NumberOfF64(raw) == [k |-> "Number", v |-> <<"f64", raw>>]

\* c_to_lua of the raw result of a native call
c_to_lua(ctype, raw) ==
    CASE ctype.k = "Void" -> LuaNil
      [] ctype.k \in {"Int", "Enum"} -> IntegerOfI32(raw)
      [] ctype.k = "Double" -> NumberOfF64(raw)
      [] OTHER -> [k |-> "Integer", v |-> <<"i64", raw>>]

\* outcomes of an invocation
BadArgumentCount == "Bad argument count"
Failed(msg) == [err |-> msg, native |-> <<>>, result |-> <<>>, crashed |-> FALSE]
Returned(native, value) ==
    [err |-> "", native |-> <<native>>, result |-> <<value>>, crashed |-> FALSE]
Crashed == [err |-> "", native |-> <<>>, result |-> <<>>, crashed |-> TRUE]
\* ffi_call: the native function runs on the prepared values
ffi_call(fn_ptr, ret, cargs) ==
    Returned([fn |-> fn_ptr, args |-> cargs],
             c_to_lua(ret, [fn |-> fn_ptr, args |-> cargs]))

ArgTypes(sig) == [i \in 1..Len(sig.args) |-> sig.args[i].ctype]
Prepared(args, arg_types, n) == [i \in 1..n |-> prepare_arg(args[i], arg_types[i])]
Garbage(n) == [i \in 1..n |-> [t |-> "garbage", v |-> 0]]

\* detect_fast_path
detect_fast_path(sig) ==
    CASE sig.ret = Prim("Double") /\ Len(sig.args) = 1
            /\ sig.args[1].ctype = Prim("Double") -> "DoubleDouble"
      [] sig.ret = Prim("Double") /\ Len(sig.args) = 2
            /\ sig.args[1].ctype = Prim("Double")
            /\ sig.args[2].ctype = Prim("Double") -> "DoubleDoubleDouble"
      [] sig.ret = Prim("Int") /\ Len(sig.args) = 1
            /\ sig.args[1].ctype = Prim("Int") -> "IntInt"
      [] sig.ret = Prim("Void") /\ Len(sig.args) = 0 -> "VoidVoid"
      [] OTHER -> "None"

\* invoke_cached: the possible outcomes.  The call interface was prepared
\* for exactly the declared parameters; with fewer prepared values ffi_call
\* reads argument pointers that were never written.
invoke_cached(fn_ptr, sig, args) ==
    LET call(provided, expected) ==
            IF ~sig.variadic /\ provided # expected THEN {Failed(BadArgumentCount)}
            ELSE IF provided >= expected
            THEN {ffi_call(fn_ptr, sig.ret, Prepared(args, ArgTypes(sig), expected))}
            ELSE {ffi_call(fn_ptr, sig.ret,
                           Prepared(args, ArgTypes(sig), provided)
                           \o Garbage(expected - provided)),
                  Crashed}
    IN call(Len(args), Len(sig.args))

\* the __call handler of CachedFunction: the fast paths, then invoke_cached;
\* the possible [fast, out]
CachedFunction_call(fn_ptr, sig, args) ==
    LET direct(cargs, value) ==
            {[fast |-> TRUE, out |-> Returned([fn |-> fn_ptr, args |-> cargs], value)]}
        generic == {[fast |-> FALSE, out |-> o] : o \in invoke_cached(fn_ptr, sig, args)}
        f64s(cargs) == direct(cargs, NumberOfF64([fn |-> fn_ptr, args |-> cargs]))
        i32s(cargs) == direct(cargs, IntegerOfI32([fn |-> fn_ptr, args |-> cargs]))
        path(fast_path) ==
            CASE fast_path = "DoubleDouble" /\ Len(args) = 1
                    /\ get_f64(args[1]) # <<>> ->
                    f64s(<<[t |-> "f64", v |-> get_f64(args[1])[1]]>>)
              [] fast_path = "DoubleDoubleDouble" /\ Len(args) = 2
                    /\ get_f64(args[1]) # <<>> /\ get_f64(args[2]) # <<>> ->
                    f64s(<<[t |-> "f64", v |-> get_f64(args[1])[1]],
                           [t |-> "f64", v |-> get_f64(args[2])[1]]>>)
              [] fast_path = "IntInt" /\ Len(args) = 1 /\ as_i32(args[1]) # <<>> ->
                    i32s(<<[t |-> "i32", v |-> as_i32(args[1])[1]]>>)
              [] fast_path = "VoidVoid" /\ args = <<>> -> direct(<<>>, LuaNil)
              [] OTHER -> generic
    IN path(detect_fast_path(sig))

\* the type invoke_impl infers for an argument beyond the declared ones
InferredType(val) ==
    CASE val.k = "Integer" -> Prim("Int")
      [] val.k = "Number" -> Prim("Double")
      [] val.k = "String" -> Pointer(<<Prim("Char")>>)
      [] val.k = "Boolean" -> Prim("Int")
      [] val.k \in {"LightUserData", "UserData"} -> Pointer(<<>>)
      [] OTHER -> Prim("Void")

\* the variadic part of the argument loop of invoke_impl (436-463)
RECURSIVE VariadicArgs(_, _)
VariadicArgs(args, i) ==
    IF i > Len(args) THEN <<>>
    ELSE IF InferredType(args[i]) = Prim("Void") THEN VariadicArgs(args, i + 1)
    ELSE <<prepare_arg(args[i], InferredType(args[i]))>> \o VariadicArgs(args, i + 1)

\* invoke_impl
invoke_impl(fn_ptr, ret_type, arg_types, variadic, args) ==
    LET call(provided, expected) ==
            IF ~variadic /\ provided # expected THEN Failed(BadArgumentCount)
            ELSE IF variadic /\ provided < expected THEN Failed(BadArgumentCount)
            ELSE ffi_call(fn_ptr, ret_type,
                          Prepared(args, arg_types, expected)
                          \o VariadicArgs(args, expected + 1))
    IN call(Len(args), Len(arg_types))

\* invoke: the signature's parameter types without their names
invoke(fn_ptr, sig, args) ==
    invoke_impl(fn_ptr, sig.ret, ArgTypes(sig), sig.variadic, args)

\* ffi_call_ptr: the signature is taken from the region's type
ffi_call_ptr(fn_ptr, ctype, args) ==
    LET impl(ft) == invoke_impl(fn_ptr, ft.ret, ft.args, ft.variadic, args) IN
    CASE ctype.k = "Function" -> impl(ctype.ft)
      [] ctype.k = "Pointer" /\ ctype.inner = <<>> ->
            Failed("ffi.call: void pointer is not a function")
      [] ctype.k = "Pointer" /\ ctype.inner[1].k = "Function" -> impl(ctype.inner[1].ft)
      [] ctype.k = "Pointer" -> Failed("ffi.call: pointer target is not a function")
      [] OTHER -> Failed("ffi.call: not a function type")

\* the null address
NullPtr == <<>>

\* the __call handler of CBox (memory.rs 228-270): stored is the address held
\* in the region
CBox_call(ctype, stored, args) ==
    LET target(func_ptr) ==
            IF func_ptr = NullPtr THEN Failed("Attempt to call null function pointer")
            ELSE ffi_call_ptr(func_ptr, ctype, args)
    IN CASE ctype.k = "Pointer" /\ ctype.inner = <<>> ->
                Failed("Attempt to call void pointer cdata")
         [] ctype.k = "Pointer" /\ ctype.inner[1].k = "Function" -> target(stored)
         [] ctype.k = "Pointer" -> Failed("Attempt to call non-function pointer cdata")
         [] ctype.k = "Function" -> target(stored)
         [] OTHER -> Failed("Attempt to call non-function cdata")

\* the declarations the calls are made against
CallDecls == <<
    [ret |-> <<"double">>, name |-> "sqrt", params |-> <<2>>, pnames |-> FieldNames,
     variadic |-> FALSE],
    [ret |-> <<"double">>, name |-> "pow", params |-> <<2, 2>>, pnames |-> FieldNames,
     variadic |-> FALSE],
    [ret |-> <<"int">>, name |-> "abs", params |-> <<1>>, pnames |-> FieldNames,
     variadic |-> FALSE],
    [ret |-> <<"void">>, name |-> "tick", params |-> <<>>, pnames |-> FieldNames,
     variadic |-> FALSE],
    [ret |-> <<"int">>, name |-> "add", params |-> <<1, 1>>, pnames |-> FieldNames,
     variadic |-> FALSE],
    PrintfDecl >>
\* typedef int (*binop)(int, int);
BinopTypedef ==
    <<"typedef", SP, "int", SP, "(", "*", "binop", ")", "(", "int", ",", SP, "int", ")", ";">>

RECURSIVE RenderProtos(_)
RenderProtos(ds) ==
    IF ds = <<>> THEN <<>> ELSE RenderProto(Head(ds)) \o <<NL>> \o RenderProtos(Tail(ds))
CallHeader == RenderProtos(CallDecls) \o BinopTypedef \o <<NL>>

CallNames == {CallDecls[i].name : i \in 1..Len(CallDecls)}
InvokeNames == {"add", "printf"}
ArgValues == {LuaInteger(4), LuaNumber(5), LuaString("s"), LuaNil}
ArgLists == UNION {[1..n -> ArgValues] : n \in 0..MaxArgs}
\* the address a library resolves a symbol to
SymbolAddr(name) == <<"sym", name>>

\* a function type as a signature without names
SigOfType(ft) ==
    [name |-> <<>>, ret |-> ft.ret,
     args |-> [i \in 1..Len(ft.args) |-> [name |-> <<>>, ctype |-> ft.args[i]]],
     variadic |-> ft.variadic, conv |-> ft.conv]
SigOfCType(ctype) ==
    CASE ctype.k = "Function" -> <<SigOfType(ctype.ft)>>
      [] ctype.k = "Pointer" /\ ctype.inner # <<>> /\ ctype.inner[1].k = "Function" ->
            <<SigOfType(ctype.inner[1].ft)>>
      [] OTHER -> <<>>

callRest == <<lastBlock, memVars, cbVars, threadVars, moreVars>>

CdefCalls ==
    /\ CdefText(CallHeader)
    /\ UNCHANGED <<callRest, lastCall>>

\* lib.name(args...): SmartLibrary __index creates the CachedFunction from the
\* registered signature (lib.rs 194-218), then its __call handler runs
LibCall ==
    \E name \in CallNames, args \in ArgLists :
        /\ <<name>> \in DOMAIN funcs
        /\ \E r \in CachedFunction_call(SymbolAddr(name), funcs[<<name>>], args) :
              lastCall' = <<[path |-> "handle", fn_ptr |-> SymbolAddr(name),
                             sig |-> <<funcs[<<name>>]>>, args |-> args,
                             fast |-> r.fast, out |-> r.out]>>
        /\ UNCHANGED <<regVars, callRest>>

\* call::invoke on a resolved address and a registered signature
Invoke ==
    \E name \in InvokeNames, args \in ArgLists :
        /\ <<name>> \in DOMAIN funcs
        /\ lastCall' = <<[path |-> "invoke", fn_ptr |-> SymbolAddr(name),
                          sig |-> <<funcs[<<name>>]>>, args |-> args, fast |-> FALSE,
                          out |-> invoke(SymbolAddr(name), funcs[<<name>>], args)]>>
        /\ UNCHANGED <<regVars, callRest>>

\* calling a region whose type was parsed from "binop" and which holds the
\* address stored
PtrCall ==
    \E stored \in {NullPtr, <<"addr", 1>>}, args \in ArgLists :
        LET ctype == CType_parse(<<"binop">>, Registry)[1] IN
        /\ lastCall' = <<[path |-> "pointer", fn_ptr |-> stored,
                          sig |-> SigOfCType(ctype), args |-> args, fast |-> FALSE,
                          out |-> CBox_call(ctype, stored, args)]>>
        /\ UNCHANGED <<regVars, callRest>>

NextCall == CdefCalls \/ LibCall \/ Invoke \/ PtrCall
SpecCall == Init /\ [][NextCall]_vars

\* the request of the last call named a function and a signature
Called == lastCall # <<>> /\ lastCall[1].sig # <<>> /\ lastCall[1].fn_ptr # NullPtr
LastSigOfCall == lastCall[1].sig[1]
CountMismatch ==
    \/ ~LastSigOfCall.variadic /\ Len(lastCall[1].args) # Len(LastSigOfCall.args)
    \/ LastSigOfCall.variadic /\ Len(lastCall[1].args) < Len(LastSigOfCall.args)

\* C3: on every invocation path, a call whose argument count does not match
\* the signature fails with the argument-count error and runs no native code.
C3_CountChecked ==
    Called /\ CountMismatch =>
        /\ lastCall[1].out.err = BadArgumentCount
        /\ lastCall[1].out.native = <<>>
        /\ ~lastCall[1].out.crashed

\* the extra arguments of a recognized host kind, in order, as C values
RECURSIVE RecognizedExtras(_, _)
RecognizedExtras(args, i) ==
    IF i > Len(args) THEN <<>>
    ELSE (CASE args[i].k = "Integer" -> <<[t |-> "i32", v |-> args[i].v]>>
            [] args[i].k = "Number" -> <<[t |-> "f64", v |-> args[i].v]>>
            [] args[i].k = "String" -> <<[t |-> "ptr", v |-> <<"cstr", args[i].v>>]>>
            [] OTHER -> <<>>)
         \o RecognizedExtras(args, i + 1)

\* C4: a call to a variadic function hands the native function the fixed
\* arguments followed by every extra argument of a recognized kind, in order,
\* on the library-handle path and on the function-pointer path alike.
C4_VariadicExtrasPassed ==
    Called /\ LastSigOfCall.variadic /\ ~CountMismatch =>
        /\ Len(lastCall[1].out.native) = 1
        /\ lastCall[1].out.native[1].args =
              Prepared(lastCall[1].args, ArgTypes(LastSigOfCall), Len(LastSigOfCall.args))
              \o RecognizedExtras(lastCall[1].args, Len(LastSigOfCall.args) + 1)

\* C9: a call of a fast-path shaped signature through a library handle has an
\* outcome the generic path can have on the same address and arguments, and a
\* signature of any other shape is never called through a fast path.
C9_FastPathEquivalent ==
    lastCall # <<>> /\ lastCall[1].path = "handle" =>
        /\ lastCall[1].out
              \in invoke_cached(lastCall[1].fn_ptr, LastSigOfCall, lastCall[1].args)
        /\ detect_fast_path(LastSigOfCall) = "None" => ~lastCall[1].fast

(***************************************************************************)
(* Callback Engine (callback.rs).  An FfiCallback owns one libffi closure  *)
(* (the trampoline's executable memory).  The script function handed to    *)
(* ffi.callback is opaque: an invocation of it is an outcome drawn from    *)
(* ScriptResults.  The native arguments of an invocation are converted and *)
(* handed to the script function and change nothing else, so they are not  *)
(* part of the state.                                                      *)
(***************************************************************************)
MaxCallbacks == 1
MaxFrees == 2

\* as-casts of the integer conversions; every integer of the model fits i32,
\* i64 and the pointer width, so only the 8-bit casts can wrap
AsI8(x) == ((x + 128) % 256) - 128
AsU8(x) == x % 256
\* f64 as i64: truncation toward zero (a double is written as twice its value)
F64AsI64(x2) == IF x2 >= 0 THEN x2 \div 2 ELSE -((-x2) \div 2)

\* an integer as a pointer: <<>> is the null pointer
AsPtr(i) == IF i = 0 THEN <<>> ELSE <<"addr", i>>

lua_to_i64(val) ==
    CASE val.k = "Integer" -> val.v
      [] val.k = "Number" -> F64AsI64(val.v)
      [] OTHER -> 0

lua_to_f64(val) ==
    CASE val.k = "Number" -> val.v
      [] val.k = "Integer" -> 2 * val.v
      [] OTHER -> 0

\* lua_to_c_result with a non-null slot: the writes made to the return slot
lua_to_c_result(ctype, val) ==
    CASE ctype.k = "Void" -> <<>>
      [] ctype.k = "Char" -> <<[t |-> "i8", v |-> AsI8(lua_to_i64(val))]>>
      [] ctype.k = "UChar" -> <<[t |-> "u8", v |-> AsU8(lua_to_i64(val))]>>
      [] ctype.k \in {"Int", "Enum"} -> <<[t |-> "i32", v |-> lua_to_i64(val)]>>
      [] ctype.k = "Long" -> <<[t |-> "i64", v |-> lua_to_i64(val)]>>
      [] ctype.k = "Double" -> <<[t |-> "f64", v |-> lua_to_f64(val)]>>
      [] ctype.k \in {"Pointer", "Struct", "Union", "Array", "Function"} ->
            <<[t |-> "ptr",
               v |-> CASE val.k = "Integer" -> AsPtr(val.v)
                       [] val.k = "Number" -> AsPtr(F64AsI64(val.v))
                       [] val.k = "String" -> <<"bytes", val.v>>
                       [] OTHER -> <<>>]>>
      [] OTHER -> <<[t |-> "other", v |-> lua_to_i64(val)]>>

\* outcomes of func.call: Ok(values) or Err
ScriptOk(values) == [ok |-> TRUE, values |-> values]
ScriptErr == [ok |-> FALSE, values |-> <<>>]

\* callback_trampoline: what the handler does to the return slot.  found is
\* whether lua.registry_value(&data.func_key) returned Ok; call_result is the
\* outcome of the script function, which runs only when found.
callback_trampoline(data, found, call_result) ==
    IF ~found THEN [called |-> FALSE, writes |-> <<>>, propagated |-> FALSE]
    ELSE IF call_result.ok
    THEN [called |-> TRUE,
          writes |-> lua_to_c_result(data.ret_type,
                                     IF call_result.values = <<>> THEN LuaNil
                                     ELSE Head(call_result.values)),
          propagated |-> FALSE]
    ELSE [called |-> TRUE, writes |-> lua_to_c_result(data.ret_type, LuaInteger(0)),
          propagated |-> FALSE]

\* parse_callback_signature: [err |-> TRUE] or [err |-> FALSE, ret, args, conv]
RECURSIVE CallbackArgs(_, _)
CallbackArgs(parts, R) ==
    LET push(ctype, rest) == IF ctype = <<>> THEN rest ELSE <<ctype[1]>> \o rest
    IN IF parts = <<>> THEN <<>>
       ELSE push(CType_parse(Trim(Head(parts)), R), CallbackArgs(Tail(parts), R))

RECURSIVE SigArgTypes(_)
SigArgTypes(args) ==
    IF args = <<>> THEN <<>> ELSE <<Head(args).ctype>> \o SigArgTypes(Tail(args))

parse_callback_signature(sig_str, R) ==
    LET parsed(conv, ret_str, args_str) ==
            [err |-> FALSE, ret |-> UnwrapOr(CType_parse(ret_str, R), Prim("Int")),
             args |-> IF args_str # <<>> /\ args_str # <<"void">>
                      THEN CallbackArgs(Split(args_str, ","), R) ELSE <<>>,
             conv |-> conv]
        conv(before_paren, args_str) ==
            IF Contains(before_paren, "__stdcall")
            THEN parsed("Stdcall", Replace(before_paren, <<"__stdcall">>, <<>>), args_str)
            ELSE IF Contains(before_paren, "WINAPI")
            THEN parsed("Stdcall", Replace(before_paren, <<"WINAPI">>, <<>>), args_str)
            ELSE parsed("C", before_paren, args_str)
        inline(sig, paren_start, paren_end) ==
            IF paren_start = 0 \/ paren_end = 0 \/ paren_end < paren_start THEN [err |-> TRUE]
            ELSE conv(Trim(Take(sig, paren_start - 1)),
                      SubSeq(sig, paren_start + 1, paren_end - 1))
        lookup(sig) ==
            IF sig \in DOMAIN R.funcs
            THEN [err |-> FALSE, ret |-> R.funcs[sig].ret,
                  args |-> SigArgTypes(R.funcs[sig].args), conv |-> R.funcs[sig].conv]
            ELSE inline(sig, Find(sig, "("), RFind(sig, ")"))
    IN lookup(Trim(sig_str))

\* FfiCallback::new once the closure is allocated and prepared
FfiCallback_new(ret_type, arg_types, conv) ==
    [closure |-> <<"closure", Len(callbacks) + 1>>,
     data |-> [ret_type |-> ret_type, arg_types |-> arg_types],
     ret_type |-> ret_type, arg_count |-> Len(arg_types), conv |-> conv,
     frees |-> 0, dropped |-> FALSE, released |-> 0]

\* the isValid field and method: !closure.is_null()
isValid(cb) == cb.closure # <<>>

\* the signatures handed to ffi.callback
CallbackSigs == {
    <<"int", "(", "int", ")">>,
    <<"void", "(", "void", ")">>,
    <<"double", "(", ")">>,
    <<"void", "*", "(", "int", ",", SP, "int", ")">>,
    <<"int8_t", SP, "__stdcall", "(", "int", ")">>,
    <<"sqrt">>,
    <<"bogus">> }

\* what the script function of a callback can do when it is called
ScriptResults ==
    {ScriptErr, ScriptOk(<<>>), ScriptOk(<<LuaInteger(300), LuaInteger(1)>>)}
    \cup {ScriptOk(<<v>>) : v \in {LuaInteger(300), LuaNumber(5), LuaString("s"), LuaNil}}

\* ffi.callback(sig, func) = create_callback: the signature is parsed and the
\* closure is made; made is whether prep_cif, closure_alloc and
\* prep_closure_mut all succeeded (a closure whose preparation failed is
\* freed at once and no object exists)
create_callback ==
    \E sig \in CallbackSigs, made \in BOOLEAN :
        /\ Len(callbacks) < MaxCallbacks
        /\ LET make(p) ==
                   IF p.err \/ ~made THEN UNCHANGED callbacks
                   ELSE callbacks' = Append(callbacks, FfiCallback_new(p.ret, p.args, p.conv))
           IN make(parse_callback_signature(sig, Registry))
        /\ UNCHANGED <<regVars, lastBlock, memVars, lastCall, lastTramp, threadVars, moreVars>>

\* native code calls the code pointer of a live callback
Trampoline ==
    \E i \in DOMAIN callbacks, found \in BOOLEAN, call_result \in ScriptResults :
        /\ ~callbacks[i].dropped
        /\ lastTramp' = <<[cb |-> i, ret_type |-> callbacks[i].data.ret_type,
                           found |-> found, call_result |-> call_result,
                           out |-> callback_trampoline(callbacks[i].data, found,
                                                       call_result)]>>
        /\ UNCHANGED <<regVars, lastBlock, memVars, lastCall, callbacks, threadVars, moreVars>>

\* cb:free(): the method's body is Ok(()); the call is counted
FfiCallback_free ==
    \E i \in DOMAIN callbacks :
        /\ ~callbacks[i].dropped
        /\ callbacks[i].frees < MaxFrees
        /\ callbacks' = [callbacks EXCEPT ![i].frees = @ + 1]
        /\ UNCHANGED <<regVars, lastBlock, memVars, lastCall, lastTramp, threadVars, moreVars>>

\* Drop for FfiCallback, when the host collects the object
FfiCallback_drop ==
    \E i \in DOMAIN callbacks :
        /\ ~callbacks[i].dropped
        /\ callbacks' = [callbacks EXCEPT
                           ![i].dropped = TRUE,
                           ![i].released = IF isValid(callbacks[i]) THEN @ + 1 ELSE @]
        /\ UNCHANGED <<regVars, lastBlock, memVars, lastCall, lastTramp, threadVars, moreVars>>

NextCallback ==
    CdefCalls \/ create_callback \/ Trampoline \/ FfiCallback_free \/ FfiCallback_drop
SpecCallback == Init /\ [][NextCallback]_vars

\* a write of the zero / default value of its type
IsZero(w) == IF w.t = "ptr" THEN w.v = <<>> ELSE w.v = 0

\* C5: an invocation of a trampoline whose return type is not void writes the
\* return slot exactly once: the conversion of the script function's first
\* returned value (of nil when it returns nothing) on success, a zero value
\* when the script function raises; and the error never reaches the caller.
C5_SlotWrittenOnce ==
    lastTramp # <<>> /\ lastTramp[1].ret_type.k # "Void" =>
        /\ Len(lastTramp[1].out.writes) = 1
        /\ ~lastTramp[1].out.propagated
        /\ IF lastTramp[1].call_result.ok
           THEN lastTramp[1].out.writes =
                   lua_to_c_result(lastTramp[1].ret_type,
                                   IF lastTramp[1].call_result.values = <<>> THEN LuaNil
                                   ELSE Head(lastTramp[1].call_result.values))
           ELSE IsZero(lastTramp[1].out.writes[1])

\* C6: once free has been called on a callback object its isValid is false
\* and its trampoline has been released, and a dropped object's trampoline
\* has been released exactly once whatever free calls came before.
C6_FreeReleases ==
    \A i \in DOMAIN callbacks :
        /\ callbacks[i].frees > 0 => ~isValid(callbacks[i]) /\ callbacks[i].released = 1
        /\ callbacks[i].dropped => callbacks[i].released = 1

(***************************************************************************)
(* Registry under concurrent use.  Each writer runs the typedef-struct     *)
(* branch of parse_cdef on a declaration of its own struct: the body is    *)
(* parsed (its fields are primitive, so CType::parse reads no table), then *)
(* `Registry::get().add_struct(d)` takes the Mutex, inserts and drops the  *)
(* guard at the end of the statement.  HashMap::insert is not one step:    *)
(* it reads the table, writes the entry and then publishes the table with  *)
(* the entry complete.  The reader runs ffi.sizeof's lookup.               *)
(***************************************************************************)
MaxLookups == 2

\* the declarations a writer chooses from: w1 registers Inner, w2 registers S
ThreadDecls(t) ==
    IF t = "w1"
    THEN [kind : {"struct"}, name : {"Inner"}, form : {"typedefN"},
          is_union : {FALSE}, fields : {<<1>>, <<3, 1>>}]
    ELSE [kind : {"struct"}, name : {"S"}, form : {"typedef1"},
          is_union : {FALSE}, fields : {<<2>>, <<1, 3>>}]
LookupNames == {<<"Inner">>, <<"S">>}

\* Mutex::lock as called by Registry::get: blocks while the lock is held
MutexLock_unguarded(t) == lock' = <<t>>

MutexLock(t) == lock = <<>> /\ lock' = <<t>>

\* an entry whose value is not written yet
Torn(def) == [def EXCEPT !.fields = <<>>]

\* Registry::get_struct on the structs table S
get_struct(S, name) == IF name \in DOMAIN S THEN <<S[name]>> ELSE <<>>

\* parse_cdef 29-36: the declaration is parsed before the registry is taken
ParseDecl(t) ==
    /\ threads[t].pc = "start"
    /\ \E d \in ThreadDecls(t) :
          LET parsed(res) ==
                  threads' = [threads EXCEPT
                                ![t].def = res.def,
                                ![t].pc = IF res.def = <<>> THEN "done" ELSE "parsed"]
          IN parsed(parse_typedef_struct(Lines(RenderStruct(d)), 1, d.is_union, Registry))
    /\ UNCHANGED <<regVars, lastBlock, memVars, lastCall, cbVars, moreVars, lock, seen>>

\* Registry::get() by a writer about to add, or by the reader about to look up
Registry_get(t) ==
    /\ IF t \in Writers THEN threads[t].pc = "parsed"
       ELSE threads[t].pc = "start" /\ Len(seen) < MaxLookups
    /\ MutexLock(t)
    /\ threads' = [threads EXCEPT ![t].pc = "locked"]
    /\ UNCHANGED <<regVars, lastBlock, memVars, lastCall, cbVars, moreVars, seen>>

\* add_struct, first half: the table is read and the entry's key is written
InsertBegin(t) ==
    /\ t \in Writers /\ threads[t].pc = "locked"
    /\ threads' = [threads EXCEPT ![t].table = structs, ![t].pc = "inserting"]
    /\ structs' = Insert(structs, threads[t].def[1].name, Torn(threads[t].def[1]))
    /\ UNCHANGED <<enums, typedefs, funcs, lastBlock, memVars, lastCall, cbVars, moreVars, lock, seen>>

\* add_struct, second half: the table with the complete entry is published
InsertEnd(t) ==
    /\ t \in Writers /\ threads[t].pc = "inserting"
    /\ threads' = [threads EXCEPT ![t].table = EmptyMap, ![t].pc = "inserted"]
    /\ structs' = Insert(threads[t].table, threads[t].def[1].name, threads[t].def[1])
    /\ UNCHANGED <<enums, typedefs, funcs, lastBlock, memVars, lastCall, cbVars, moreVars, lock, seen>>

\* get_struct by the reader, under the guard it holds
Lookup(t) ==
    /\ t \notin Writers /\ threads[t].pc = "locked"
    /\ \E name \in LookupNames :
          seen' = Append(seen, [name |-> name, value |-> get_struct(structs, name)])
    /\ threads' = [threads EXCEPT ![t].pc = "looked"]
    /\ UNCHANGED <<regVars, lastBlock, memVars, lastCall, cbVars, moreVars, lock>>

\* the MutexGuard is dropped
GuardDrop(t) ==
    /\ threads[t].pc \in {"inserted", "looked"}
    /\ lock' = <<>>
    /\ threads' = [threads EXCEPT ![t].pc = IF t \in Writers THEN "done" ELSE "start"]
    /\ UNCHANGED <<regVars, lastBlock, memVars, lastCall, cbVars, moreVars, seen>>

NextThreads ==
    \E t \in Threads :
        \/ ParseDecl(t)
        \/ Registry_get(t)
        \/ InsertBegin(t)
        \/ InsertEnd(t)
        \/ Lookup(t)
        \/ GuardDrop(t)
SpecThreads == Init /\ [][NextThreads]_vars

\* the threads between Registry::get() and the drop of the guard
InRegistry == {t \in Threads : threads[t].pc \in {"locked", "inserting", "inserted", "looked"}}

\* C7: two threads registering two distinct structs, in any interleaving,
\* leave both definitions in the registry once both are done; no lookup sees
\* an entry that is not a writer's complete definition; and every thread
\* reading or writing the registry is the one holder of the registry lock.
C7_ConcurrentRegistration ==
    /\ \A t \in Writers :
          threads[t].pc = "done" /\ threads[t].def # <<>> =>
              get_struct(structs, threads[t].def[1].name) = threads[t].def
    /\ \A i \in DOMAIN seen :
          seen[i].value = <<>> \/ \E t \in Writers : threads[t].def = seen[i].value
    /\ \A t \in InRegistry : lock = <<t>>

\* both writers are done, both structs are registered, and the reader found
\* one struct at a time when the other was not registered yet
C7_Witness ==
    /\ \A t \in Writers : threads[t].pc = "done"
    /\ {<<"Inner">>, <<"S">>} \subseteq DOMAIN structs
    /\ Len(seen) = 2
    /\ seen[1].value = <<>> /\ seen[2].value # <<>>

(***************************************************************************)
(* Unions: cdef of union declarations, and of the struct Inner that a      *)
(* union member can name.                                                  *)
(***************************************************************************)
UnionKinds == <<
    [type |-> <<"char">>,   ptr |-> <<>>,    suffix |-> <<>>],
    [type |-> <<"int">>,    ptr |-> <<>>,    suffix |-> <<>>],
    [type |-> <<"double">>, ptr |-> <<>>,    suffix |-> <<>>],
    [type |-> <<"char">>,   ptr |-> <<"*">>, suffix |-> <<>>],
    [type |-> <<"char">>,   ptr |-> <<>>,    suffix |-> <<"[", "5", "]">>],
    [type |-> <<"Inner">>,  ptr |-> <<>>,    suffix |-> <<>>] >>
UnionLists == UNION {[1..n -> 1..Len(UnionKinds)] : n \in 0..MaxFields}

RECURSIVE RenderMembers(_, _)
RenderMembers(fl, i) ==
    IF i > Len(fl) THEN <<>>
    ELSE LET k == UnionKinds[fl[i]] IN
         <<SP>> \o k.type \o <<SP>> \o k.ptr \o <<FieldNames[i]>> \o k.suffix \o <<";">>
         \o RenderMembers(fl, i + 1)

\* typedef union { ... } U;   or   typedef struct { ... } Inner;
RenderUnion(d) ==
    <<"typedef", SP, IF d.is_union THEN "union" ELSE "struct", SP, "{">>
    \o RenderMembers(d.fields, 1) \o <<SP, "}", SP, d.name, ";">>

UnionDecls ==
    [name : {"U"}, is_union : {TRUE}, fields : UnionLists]
    \cup [name : {"Inner"}, is_union : {FALSE}, fields : {<<1>>, <<3, 1>>, <<5, 2>>}]

CdefUnion ==
    \E d \in UnionDecls :
        /\ CdefText(RenderUnion(d))
        /\ UNCHANGED <<lastBlock, memVars, lastCall, cbVars, moreVars, threadVars>>

NextUnion == CdefUnion
SpecUnion == Init /\ [][NextUnion]_vars

\* the sizes / alignments of the fields of def, resolved in the struct table S
FieldSizes(def, S) == {CType_size(def.fields[i].ctype, S) : i \in 1..Len(def.fields)}
FieldAligns(def, S) == {CType_align(def.fields[i].ctype, S) : i \in 1..Len(def.fields)}
IsMaxOf(x, set, least) ==
    IF set = {} THEN x = least ELSE x \in set /\ \A y \in set : y <= x

\* C11: every union that a cdef call registers has every field at offset 0,
\* a size equal to the largest field size and an alignment equal to the
\* largest field alignment (sizes and alignments as resolved at parse time).
C11_UnionLayout ==
    [][\A n \in DOMAIN structs' :
          Registered(n) /\ structs'[n].is_union =>
              /\ \A i \in 1..Len(structs'[n].fields) : structs'[n].fields[i].offset = 0
              /\ IsMaxOf(structs'[n].size, FieldSizes(structs'[n], structs), 0)
              /\ IsMaxOf(structs'[n].align, FieldAligns(structs'[n], structs), 1)]_vars

\* the union of char[5] and int is registered with its two fields
C11_Witness ==
    /\ <<"U">> \in DOMAIN structs
    /\ structs[<<"U">>].is_union
    /\ FieldTypes(structs[<<"U">>]) = <<Array(Prim("Char"), 5), Prim("Int")>>
    /\ FieldOffsets(structs[<<"U">>]) = <<0, 0>>
    /\ structs[<<"U">>].size = 5

\* C12: every definition that a cdef call registers, struct or union, has a
\* size that is a multiple of its alignment.
C12_SizeRoundedUp ==
    [][\A n \in DOMAIN structs' :
          Registered(n) => structs'[n].size % structs'[n].align = 0]_vars

(***************************************************************************)
(* ffi.sizeof / ffi.alignof (lib.rs) on type names.  The primitive table   *)
(* is compiled per build, so a query is made on a build: the handlers on   *)
(* the build the model describes run the whole of CType::parse; on the     *)
(* other builds the queries are of keywords and of pointers to keywords.   *)
(***************************************************************************)
Builds == [windows : BOOLEAN, width : {32, 64}]
TheBuild == [windows |-> cfg_windows, width |-> target_pointer_width]

Keywords == {
    <<"void">>, <<"bool">>, <<"_Bool">>, <<"char">>, <<"signed", SP, "char">>,
    <<"unsigned", SP, "char">>, <<"short">>, <<"unsigned", SP, "short">>, <<"int">>,
    <<"unsigned">>, <<"unsigned", SP, "int">>, <<"long">>, <<"long", SP, "int">>,
    <<"unsigned", SP, "long">>, <<"long", SP, "long">>,
    <<"unsigned", SP, "long", SP, "long">>, <<"float">>, <<"double">>,
    <<"int8_t">>, <<"uint8_t">>, <<"int16_t">>, <<"uint16_t">>, <<"int32_t">>,
    <<"uint32_t">>, <<"int64_t">>, <<"uint64_t">>, <<"size_t">>, <<"intptr_t">> }
PointerNames == {<<"void", "*">>, <<"int", "*">>, <<"const", SP, "char", SP, "*">>,
                 <<"double", "*">>}
TypeNames == Keywords \cup PointerNames \cup {<<"int", "[", "4", "]">>, <<"Inner">>, <<>>}

\* CType::parse of a keyword or of a pointer to one, as compiled for build b
ParseOn(name, b) ==
    LET pointer(base) ==
            IF base = <<"void">> \/ base = <<>> THEN <<Pointer(<<>>)>>
            ELSE IF PrimitiveOn(base, b.windows, b.width) = <<>> THEN <<>>
            ELSE <<Pointer(PrimitiveOn(base, b.windows, b.width))>>
        parse(s) ==
            IF s = <<>> THEN <<>>
            ELSE IF EndsWith(s, "*") THEN pointer(StripModifiers(Front(s)))
            ELSE PrimitiveOn(s, b.windows, b.width)
    IN parse(StripModifiers(name))

\* CType::size / CType::align of a primitive or pointer type on build b
SizeOn(t, b) ==
    IF t.k \in {"Pointer", "Function"} THEN b.width \div 8 ELSE CType_size(t, EmptyMap)
AlignOn(t, b) ==
    IF t.k \in {"Pointer", "Function"} THEN b.width \div 8 ELSE CType_align(t, EmptyMap)

\* the answer of ffi.sizeof / ffi.alignof: <<n>>, or <<>> for "Unknown type"
Measure(op, ctype, S) ==
    IF op = "sizeof" THEN CType_size(ctype, S) ELSE CType_align(ctype, S)
MeasureOn(op, ctype, b) == IF op = "sizeof" THEN SizeOn(ctype, b) ELSE AlignOn(ctype, b)

ffi_sizeof ==
    \E type_name \in TypeNames :
        LET answer(ctype) ==
                IF ctype # <<>> THEN <<Measure("sizeof", ctype[1], structs)>>
                ELSE IF type_name \in DOMAIN structs THEN <<structs[type_name].size>>
                ELSE <<>>
        IN /\ typeProbe' = <<[build |-> TheBuild, op |-> "sizeof", name |-> type_name,
                              result |-> answer(CType_parse(type_name, Registry))]>>
           /\ UNCHANGED <<regVars, lastBlock, memVars, lastCall, cbVars, threadVars, lastBatch, extraVars>>

ffi_alignof ==
    \E type_name \in TypeNames :
        LET answer(ctype) ==
                IF ctype # <<>> THEN <<Measure("alignof", ctype[1], structs)>>
                ELSE IF type_name \in DOMAIN structs THEN <<structs[type_name].align>>
                ELSE <<>>
        IN /\ typeProbe' = <<[build |-> TheBuild, op |-> "alignof", name |-> type_name,
                              result |-> answer(CType_parse(type_name, Registry))]>>
           /\ UNCHANGED <<regVars, lastBlock, memVars, lastCall, cbVars, threadVars, lastBatch, extraVars>>

\* ffi.sizeof / ffi.alignof of a keyword or a pointer to one, on any build
MeasureOnBuild ==
    \E b \in Builds, op \in {"sizeof", "alignof"}, type_name \in Keywords \cup PointerNames :
        LET answer(ctype) == IF ctype = <<>> THEN <<>> ELSE <<MeasureOn(op, ctype[1], b)>>
        IN /\ typeProbe' = <<[build |-> b, op |-> op, name |-> type_name,
                              result |-> answer(ParseOn(type_name, b))]>>
           /\ UNCHANGED <<regVars, lastBlock, memVars, lastCall, cbVars, threadVars, lastBatch, extraVars>>

NextMeasure == ffi_sizeof \/ ffi_alignof \/ MeasureOnBuild
SpecMeasure == Init /\ [][NextMeasure]_vars

\* size (= alignment) of the C types the keywords name, x86-64 System V ABI
AbiSize(name) ==
    CASE name \in PointerNames -> 8
      [] name \in {<<"bool">>, <<"_Bool">>, <<"char">>, <<"signed", SP, "char">>,
                   <<"unsigned", SP, "char">>, <<"int8_t">>, <<"uint8_t">>} -> 1
      [] name \in {<<"short">>, <<"unsigned", SP, "short">>, <<"int16_t">>,
                   <<"uint16_t">>} -> 2
      [] name \in {<<"int">>, <<"unsigned">>, <<"unsigned", SP, "int">>, <<"float">>,
                   <<"int32_t">>, <<"uint32_t">>} -> 4
      [] name \in {<<"long", SP, "long">>, <<"unsigned", SP, "long", SP, "long">>,
                   <<"double">>, <<"int64_t">>, <<"uint64_t">>} -> 8
      [] OTHER -> 0
AbiNames == {n \in Keywords \cup PointerNames : AbiSize(n) # 0}

\* C13: on the build the model describes, the size and the alignment that
\* ffi.sizeof / ffi.alignof report for a primitive keyword or a pointer type
\* are the size and alignment the platform C ABI gives that type; bool and
\* _Bool are 1 byte.
C13_AbiSizes ==
    typeProbe # <<>> /\ typeProbe[1].build = TheBuild /\ typeProbe[1].name \in AbiNames =>
        typeProbe[1].result = <<AbiSize(typeProbe[1].name)>>

\* C14: on every build, long and unsigned long have the same size, 4 or 8.
C14_LongWidthOnePolicy ==
    typeProbe # <<>> /\ typeProbe[1].op = "sizeof"
    /\ typeProbe[1].name \in {<<"long">>, <<"long", SP, "int">>, <<"unsigned", SP, "long">>} =>
        /\ typeProbe[1].result \in {<<4>>, <<8>>}
        /\ \A other \in {<<"long">>, <<"unsigned", SP, "long">>} :
              typeProbe[1].result
                 = <<SizeOn(ParseOn(other, typeProbe[1].build)[1], typeProbe[1].build)>>

(***************************************************************************)
(* Batch processing (batch.rs).  Memory is a row of MemCells doubles at    *)
(* addresses 1..MemCells; address 0 is the null pointer.  The native       *)
(* double -> double functions are stand-ins computed on the model's        *)
(* doubles (twice their value).  The caller owns the buffers: the input    *)
(* and the output are arrays of count doubles inside the memory, either    *)
(* the same array or two arrays that do not overlap.                       *)
(***************************************************************************)
MemCells == 4
MaxCount == 2

NativeFns == {"neg", "succ"}
Apply(fn, x) == IF fn = "neg" THEN 0 - x ELSE x + 2

LuaLightUserData(addr) == [k |-> "LightUserData", v |-> addr]
CachedUserData(fn) == [k |-> "UserData", v |-> fn]

\* one round of the loop of ffi_batch: read, call, write
BatchStep_first(fn, input, output, i, st) ==
    [mem |-> [st.mem EXCEPT ![output + i] = Apply(fn, st.mem[input])],
     calls |-> Append(st.calls, st.mem[input])]

BatchStep(fn, input, output, i, st) ==
    [mem |-> [st.mem EXCEPT ![output + i] = Apply(fn, st.mem[input + i])],
     calls |-> Append(st.calls, st.mem[input + i])]

RECURSIVE BatchLoop(_, _, _, _, _, _)
BatchLoop(fn, input, output, i, count, st) ==
    IF i >= count THEN st
    ELSE BatchLoop(fn, input, output, i + 1, count, BatchStep(fn, input, output, i, st))

\* ffi_batch on memory mem: [err, ret, mem, calls]; calls are the arguments
\* the native function was called with, in order
ffi_batch(func, input_ptr, output_ptr, count, mem) ==
    LET fail(msg) == [err |-> msg, ret |-> <<>>, mem |-> mem, calls |-> <<>>]
        done(st) == [err |-> "", ret |-> <<count>>, mem |-> st.mem, calls |-> st.calls]
    IN IF func.k # "UserData" THEN fail("Expected CachedFunction")
       ELSE IF input_ptr.k \notin {"LightUserData", "Integer"}
       THEN fail("Expected input pointer")
       ELSE IF output_ptr.k \notin {"LightUserData", "Integer"}
       THEN fail("Expected output pointer")
       ELSE IF input_ptr.v = 0 \/ output_ptr.v = 0 THEN fail("Null pointer")
       ELSE done(BatchLoop(func.v, input_ptr.v, output_ptr.v, 0, count,
                           [mem |-> mem, calls |-> <<>>]))

Memories == {m \in [1..MemCells -> {1, 3}] : \A a \in 3..MemCells : m[a] = 1}
BatchFuncs == {CachedUserData(fn) : fn \in NativeFns} \cup {LuaNil}
BatchPtrs ==
    {LuaLightUserData(a) : a \in {0, 1, 3}} \cup {LuaInteger(a) : a \in {0, 2}}
    \cup {LuaNil}

\* the buffers a caller may pass: inside the memory, the same or disjoint
Buffers(input_ptr, output_ptr, count) ==
    \A p \in {input_ptr, output_ptr} :
        p.k \in {"LightUserData", "Integer"} /\ p.v # 0 =>
            /\ p.v + count - 1 <= MemCells
            /\ \A q \in {input_ptr, output_ptr} :
                  q.k \in {"LightUserData", "Integer"} /\ q.v # 0 =>
                      q.v = p.v \/ q.v + count <= p.v \/ p.v + count <= q.v

\* ffi.batch(func, input_ptr, output_ptr, count)
Batch ==
    \E func \in BatchFuncs, input_ptr \in BatchPtrs, output_ptr \in BatchPtrs,
       count \in 0..MaxCount, mem \in Memories :
        /\ Buffers(input_ptr, output_ptr, count)
        /\ lastBatch' = <<[func |-> func, input_ptr |-> input_ptr, output_ptr |-> output_ptr,
                           count |-> count, before |-> mem,
                           out |-> ffi_batch(func, input_ptr, output_ptr, count, mem)]>>
        /\ UNCHANGED <<regVars, lastBlock, memVars, lastCall, cbVars, threadVars, typeProbe, extraVars>>

NextBatch == Batch
SpecBatch == Init /\ [][NextBatch]_vars

IsAddress(p) == p.k \in {"LightUserData", "Integer"}

\* C15: a batch call with a cached double -> double function and two
\* addresses returns count, has called the function exactly count times, on
\* input[0], input[1], ... in that order, has left output[i] = f(input[i])
\* for every i < count and every other cell as it was; with a null input or
\* output address it fails without calling the function or writing.
C15_BatchElementwise ==
    lastBatch # <<>> /\ lastBatch[1].func.k = "UserData"
    /\ IsAddress(lastBatch[1].input_ptr) /\ IsAddress(lastBatch[1].output_ptr) =>
        IF lastBatch[1].input_ptr.v = 0 \/ lastBatch[1].output_ptr.v = 0
        THEN /\ lastBatch[1].out.err # ""
             /\ lastBatch[1].out.calls = <<>>
             /\ lastBatch[1].out.mem = lastBatch[1].before
        ELSE /\ lastBatch[1].out.err = ""
             /\ lastBatch[1].out.ret = <<lastBatch[1].count>>
             /\ lastBatch[1].out.calls =
                   [i \in 1..lastBatch[1].count |->
                       lastBatch[1].before[lastBatch[1].input_ptr.v + i - 1]]
             /\ \A a \in 1..MemCells :
                   lastBatch[1].out.mem[a] =
                      IF a >= lastBatch[1].output_ptr.v
                         /\ a < lastBatch[1].output_ptr.v + lastBatch[1].count
                      THEN Apply(lastBatch[1].func.v,
                                 lastBatch[1].before[lastBatch[1].input_ptr.v
                                                     + (a - lastBatch[1].output_ptr.v)])
                      ELSE lastBatch[1].before[a]

\* two elements with different values were processed into another array
C15_Witness ==
    /\ lastBatch # <<>>
    /\ lastBatch[1].func = CachedUserData("succ")
    /\ lastBatch[1].count = 2
    /\ lastBatch[1].input_ptr = LuaLightUserData(1)
    /\ lastBatch[1].output_ptr = LuaLightUserData(3)
    /\ lastBatch[1].before = <<1, 3, 1, 1>>
    /\ lastBatch[1].out.mem = <<1, 3, 3, 5>>
    /\ lastBatch[1].out.calls = <<1, 3>>
    /\ lastBatch[1].out.ret = <<2>>

(***************************************************************************)
(* Borrowed regions (memory.rs): boxes made by ffi.cast and by reading an  *)
(* element or a field of a box never release memory.                       *)
(***************************************************************************)
\* addresses: the regions allocated by CBox::new start at 1, 2, ...; the
\* address n bytes into the region at ptr is written ptr + Span * n
Span == MaxBoxes + 1
Offset(ptr, n) == ptr + Span * n

\* c_to_lua_at_ptr(ctype, ptr), val being the word stored at ptr: <<>> when
\* the result is nil or a number, else the box the result wraps
c_to_lua_at_ptr(ctype, ptr, val) ==
    IF ptr = 0 THEN <<>>
    ELSE CASE ctype.k = "Pointer" ->
                IF val = 0 THEN <<>>
                ELSE <<[ptr |-> val, ctype |-> ctype, owned |-> FALSE]>>
           [] ctype.k \in {"Array", "Struct", "Union", "Function", "GUID"} ->
                <<[ptr |-> ptr, ctype |-> ctype, owned |-> FALSE]>>
           [] OTHER -> <<>>

\* StructDef::field
StructDef_field(def, name) ==
    LET found == {i \in 1..Len(def.fields) : def.fields[i].name = name}
    IN IF found = {} THEN <<>>
       ELSE <<def.fields[CHOOSE i \in found : \A j \in found : i <= j]>>

\* the element or field a key of __index / __newindex stands for: its type and
\* its address
CBox_index_target(this, key) ==
    LET elem(target) ==
            <<[ctype |-> target,
               ptr |-> Offset(this.ptr, key.v * CType_size(target, structs))]>>
        at_index ==
            CASE this.ctype.k = "Array" -> elem(this.ctype.elem)
              [] this.ctype.k = "Pointer" ->
                    IF this.ctype.inner = <<>> THEN <<>> ELSE elem(this.ctype.inner[1])
              [] OTHER -> elem(this.ctype)
        at(field) ==
            IF field = <<>> THEN <<>>
            ELSE <<[ctype |-> field[1].ctype, ptr |-> Offset(this.ptr, field[1].offset)]>>
        in(match_type) ==
            IF match_type # <<>> /\ match_type[1].k \in {"Struct", "Union"}
               /\ match_type[1].name \in DOMAIN structs
            THEN at(StructDef_field(structs[match_type[1].name], key.v))
            ELSE <<>>
        at_field ==
            in(IF this.ctype.k = "Pointer" THEN this.ctype.inner ELSE <<this.ctype>>)
    IN CASE key.k = "Integer" -> at_index
         [] key.k = "String" -> at_field
         [] OTHER -> <<>>

\* __index: the value at the element or field, val being the word stored there
CBox_index(this, key, val) ==
    LET read(t) == IF t = <<>> THEN <<>> ELSE c_to_lua_at_ptr(t[1].ctype, t[1].ptr, val)
    IN read(CBox_index_target(this, key))

\* a struct with a pointer and an array member, a union, and a
\* function-pointer type
BorrowTexts == {
    RenderStruct([kind |-> "struct", name |-> "S", form |-> "typedef1",
                  is_union |-> FALSE, fields |-> <<4, 5>>]),
    RenderStruct([kind |-> "struct", name |-> "U", form |-> "typedef1",
                  is_union |-> TRUE, fields |-> <<2, 3>>]),
    <<"typedef", SP, "int", SP, "(", "*", "cb", ")", "(", "int", ")", ";">> }
BorrowTypeNames ==
    {<<"S">>, <<"int">>, <<"cb">>, <<"S", "*">>, <<"S", "[", "2", "]">>,
     <<"union", SP, "U", "[", "2", "]">>, <<"char", "*", "[", "2", "]">>}
HandleTypeNames == {<<"S">>}
IndexKeys == {0, 1}
FieldKeys == {<<"a">>, <<"b">>, <<"z">>}

CdefBorrow ==
    \E text \in BorrowTexts :
        /\ CdefText(text)
        /\ UNCHANGED <<lastBlock, memVars, lastCall, cbVars, moreVars, threadVars>>

NewRegion == \E tn \in BorrowTypeNames : ffi_new_type(tn)
TypeofRegion == \E tn \in HandleTypeNames : ffi_typeof_type(tn)

\* ffi.cast of a box, of an address given as light userdata or as an integer,
\* or of any other value (a null address)
CastRegion ==
    \E tn \in BorrowTypeNames :
        \/ \E b \in 1..Len(boxes) : ~boxes[b].dropped /\ ffi_cast_ptr(tn, boxes[b].ptr)
        \/ \E ptr \in 0..Len(allocs) : ffi_cast_ptr(tn, ptr)

\* box[key]: the word stored at the address read is any address or null
IndexRegion ==
    \E b \in 1..Len(boxes), val \in 0..Len(allocs) :
        LET wrap(result) ==
                IF result = <<>> THEN UNCHANGED boxes
                ELSE CBox_from_raw(result[1].ptr, result[1].ctype, result[1].owned)
        IN /\ ~boxes[b].dropped
           /\ Len(boxes) < MaxBoxes
           /\ \/ \E i \in IndexKeys : wrap(CBox_index(boxes[b], LuaInteger(i), val))
              \/ \E f \in FieldKeys : wrap(CBox_index(boxes[b], LuaString(f), val))
           /\ UNCHANGED <<regVars, lastBlock, allocs, handles, lastCall, cbVars,
                          moreVars, threadVars>>

NextBorrow ==
    \/ CdefBorrow \/ NewRegion \/ TypeofRegion \/ CTypeWrapper_call
    \/ CastRegion \/ IndexRegion \/ CBox_drop
SpecBorrow == Init /\ [][NextBorrow]_vars

\* the boxes a step creates, and the boxes it destroys
Created == (Len(boxes) + 1)..Len(boxes')
Destroyed == {b \in 1..Len(boxes) : ~boxes[b].dropped /\ boxes'[b].dropped}
Borrowed == {"Pointer", "Array", "Struct", "Union", "Function", "GUID"}

\* C16: a box created by cast or by reading a pointer-, array-, struct-,
\* union-, function- or GUID-typed element or field is borrowed, and destroying
\* a borrowed box releases nothing; an owned box comes from new or from calling
\* a typeof handle and owns a region of its own, so that no region is released
\* twice.
C16_BorrowedNeverFreed ==
    [][/\ (CastRegion \/ IndexRegion) =>
              /\ \A b \in Created : ~boxes'[b].owned
              /\ allocs' = allocs
       /\ IndexRegion => \A b \in Created : boxes'[b].ctype.k \in Borrowed
       /\ \A b \in Destroyed : ~boxes[b].owned => allocs' = allocs
       /\ \A b \in Created :
              boxes'[b].owned =>
                  /\ NewRegion \/ CTypeWrapper_call
                  /\ boxes'[b].ptr = Len(allocs')
                  /\ Len(allocs') = Len(allocs) + 1
       /\ \A a \in 1..Len(allocs') : allocs'[a].frees <= 1]_vars

\* a box read from a field of an owned struct has been destroyed, and so has
\* its owner: the region was released once
C16_Witness ==
    /\ Len(boxes) = 2
    /\ boxes[1].owned /\ boxes[1].dropped
    /\ ~boxes[2].owned /\ boxes[2].dropped
    /\ boxes[2].ctype.k = "Array"
    /\ boxes[2].ptr = Offset(boxes[1].ptr, 8)
    /\ allocs[1].frees = 1

(***************************************************************************)
(* The registry tables (registry.rs): add_* and get_* called directly.     *)
(***************************************************************************)
MaxAdds == 3

get_enum(E, name) == IF name \in DOMAIN E THEN <<E[name]>> ELSE <<>>
get_typedef(T, name) == IF name \in DOMAIN T THEN <<T[name]>> ELSE <<>>
get_func(F, name) == IF name \in DOMAIN F THEN <<F[name]>> ELSE <<>>

\* the names and the definitions handed to add_*: two of each kind per name
RegNames == {<<"A">>, <<"B">>}
StructDefs ==
    {[name |-> n, fields |-> <<[name |-> <<"a">>, ctype |-> t, offset |-> 0]>>,
      size |-> CType_size(t, EmptyMap), align |-> CType_align(t, EmptyMap),
      is_union |-> FALSE, is_packed |-> FALSE] :
        n \in RegNames, t \in {Prim("Int"), Prim("Char")}}
EnumValues == {[e \in {<<"RED">>} |-> 0], [e \in {<<"RED">>, <<"GREEN">>} |-> 1]}
TypedefTypes == {Prim("Int"), Pointer(<<Prim("Char")>>)}
FuncSigs ==
    {[name |-> n, ret |-> r, args |-> <<>>, variadic |-> FALSE, conv |-> "C"] :
        n \in RegNames, r \in {Prim("Int"), Prim("Void")}}

Log(table, name, value) ==
    /\ Len(added) < MaxAdds
    /\ added' = Append(added, [table |-> table, name |-> name, value |-> value])
    /\ UNCHANGED <<lastBlock, memVars, lastCall, cbVars, threadVars, typeProbe,
                   lastBatch, lastIndex, lateVars>>

AddStruct ==
    \E def \in StructDefs :
        SetRegistry(add_struct(Registry, def)) /\ Log("structs", def.name, def)
AddEnum ==
    \E name \in RegNames, values \in EnumValues :
        SetRegistry(add_enum(Registry, name, values)) /\ Log("enums", name, values)
AddTypedef ==
    \E name \in RegNames, ctype \in TypedefTypes :
        SetRegistry(add_typedef(Registry, name, ctype)) /\ Log("typedefs", name, ctype)
AddFunc ==
    \E sig \in FuncSigs :
        SetRegistry(add_func(Registry, sig)) /\ Log("funcs", sig.name, sig)

NextRegistry == AddStruct \/ AddEnum \/ AddTypedef \/ AddFunc
SpecRegistry == Init /\ [][NextRegistry]_vars

Tables == {"structs", "enums", "typedefs", "funcs"}
TableNames(table) ==
    CASE table = "structs" -> DOMAIN structs
      [] table = "enums" -> DOMAIN enums
      [] table = "typedefs" -> DOMAIN typedefs
      [] table = "funcs" -> DOMAIN funcs
TableGet(table, name) ==
    CASE table = "structs" -> get_struct(structs, name)
      [] table = "enums" -> get_enum(enums, name)
      [] table = "typedefs" -> get_typedef(typedefs, name)
      [] table = "funcs" -> get_func(funcs, name)
\* the positions in the log of the adds of name to table
Adds(table, name) ==
    {i \in 1..Len(added) : added[i].table = table /\ added[i].name = name}
LatestAdd(table, name) ==
    added[CHOOSE i \in Adds(table, name) : \A j \in Adds(table, name) : j <= i].value

\* C17: after any sequence of add_struct / add_enum / add_typedef / add_func
\* calls, each table holds exactly the names that were added to it, each with
\* the definition of the latest add of that name to that table: nothing is
\* deleted, and an add to one table changes no other table.
C17_InsertOrOverwrite ==
    \A table \in Tables :
        /\ TableNames(table) = {n \in RegNames : Adds(table, n) # {}}
        /\ \A n \in TableNames(table) :
              TableGet(table, n) = <<LatestAdd(table, n)>>

\* the struct A was added twice with different definitions, and the typedef A
\* was added in between
C17_Witness ==
    /\ Len(added) = 3
    /\ added[1].table = "structs" /\ added[3].table = "structs"
    /\ added[2].table = "typedefs"
    /\ added[1].name = <<"A">> /\ added[2].name = <<"A">> /\ added[3].name = <<"A">>
    /\ added[1].value.size # added[3].value.size

(***************************************************************************)
(* Indexing a library handle (lib.rs SmartLibrary __index) and the         *)
(* preparation of the call interface (call.rs CachedFunction::new).        *)
(***************************************************************************)
FailedToPrepareCIF == <<"Failed", SP, "to", SP, "prepare", SP, "CIF">>
\* "Symbol '{}' not found: {}", with the loader's own message at the end
SymbolNotFound(func_name) ==
    <<"Symbol", SP, "'">> \o func_name \o <<"'", SP, "not", SP, "found", ":", SP, "dlsym">>

IndexErr(msg) == [k |-> "Err", err |-> msg, cached |-> <<>>]
IndexNil == [k |-> "Nil", err |-> <<>>, cached |-> <<>>]
IndexUserData(cached) == [k |-> "UserData", err |-> <<>>, cached |-> <<cached>>]

\* a CachedFunction::new that does not look at the status of the preparation
CachedFunction_new_unchecked(fn_ptr, sig, status_ok) ==
    [err |-> <<>>, cached |-> <<[fn_ptr |-> fn_ptr, sig |-> sig]>>]

\* CachedFunction::new: status_ok is what prep_cif / prep_cif_var reports
CachedFunction_new(fn_ptr, sig, status_ok) ==
    IF ~status_ok THEN [err |-> FailedToPrepareCIF, cached |-> <<>>]
    ELSE [err |-> <<>>, cached |-> <<[fn_ptr |-> fn_ptr, sig |-> sig]>>]

\* lib[func_name], lib being the set of the symbols the library exports
SmartLibrary_index(lib, func_name, status_ok) ==
    LET made(cached) ==
            IF cached.cached = <<>> THEN IndexErr(cached.err)
            ELSE IndexUserData(cached.cached[1])
        resolve(sig) ==
            IF func_name \notin lib THEN IndexErr(SymbolNotFound(func_name))
            ELSE made(CachedFunction_new(SymbolAddr(func_name[1]), sig, status_ok))
        declared(sig) == IF sig # <<>> THEN resolve(sig[1]) ELSE IndexNil
    IN declared(get_func(funcs, func_name))

\* int f(int a);  double g(void);  int printf(const char *fmt, ...);
IndexDecls ==
    {[ret |-> <<"int">>, name |-> "f", params |-> <<1>>, pnames |-> FieldNames,
      variadic |-> FALSE],
     [ret |-> <<"double">>, name |-> "g", params |-> <<>>, pnames |-> FieldNames,
      variadic |-> FALSE],
     PrintfDecl}
IndexNames == {<<"f">>, <<"g">>, <<"printf">>, <<"h">>}
Libraries == SUBSET {<<"f">>, <<"printf">>, <<"h">>}

CdefIndex ==
    \E d \in IndexDecls :
        /\ CdefText(RenderProto(d))
        /\ UNCHANGED <<lastBlock, memVars, lastCall, cbVars, moreVars, threadVars>>

LibIndex ==
    \E lib \in Libraries, func_name \in IndexNames, status_ok \in BOOLEAN :
        /\ lastIndex' = <<[lib |-> lib, func_name |-> func_name, status_ok |-> status_ok,
                           declared |-> func_name \in DOMAIN funcs,
                           out |-> SmartLibrary_index(lib, func_name, status_ok)]>>
        /\ UNCHANGED <<regVars, lastBlock, memVars, lastCall, cbVars, threadVars,
                       typeProbe, lastBatch, added, lateVars>>

NextIndex == CdefIndex \/ LibIndex
SpecIndex == Init /\ [][NextIndex]_vars

\* C18: indexing a library handle with a declared name whose symbol the
\* library does not resolve is an error that names the symbol; a failed
\* preparation of the call interface is an error; an undeclared name gives
\* nil; a callable object is returned only for a declared, resolved name whose
\* call interface was prepared.
C18_IndexErrors ==
    lastIndex # <<>> =>
        LET q == lastIndex[1] IN
        /\ q.declared /\ q.func_name \notin q.lib =>
              /\ q.out.k = "Err"
              /\ \E i \in 1..Len(q.out.err) : q.out.err[i] = q.func_name[1]
        /\ q.declared /\ q.func_name \in q.lib /\ ~q.status_ok => q.out.k = "Err"
        /\ ~q.declared => q.out.k = "Nil"
        /\ q.out.k = "UserData" <=>
              q.declared /\ q.func_name \in q.lib /\ q.status_ok

\* printf is declared and exported, and the preparation of its call interface
\* failed
C18_Witness ==
    /\ lastIndex # <<>>
    /\ lastIndex[1].func_name = <<"printf">>
    /\ lastIndex[1].declared
    /\ <<"printf">> \in lastIndex[1].lib
    /\ ~lastIndex[1].status_ok
    /\ lastIndex[1].out.err = FailedToPrepareCIF

(***************************************************************************)
(* typedef struct / typedef union with a tag, an alias, both or neither.   *)
(***************************************************************************)
\* typedef struct|union [Tag] { fields } [Alias];  on one line or on several
AliasDecls ==
    [is_union : BOOLEAN, tag : {<<>>, <<"Tag">>}, alias : {<<>>, <<"Alias">>},
     lines : {1, 2}, fields : {<<2>>, <<1, 2>>}]

RenderAlias(d) ==
    LET sep == IF d.lines = 1 THEN <<>> ELSE <<NL>> IN
    <<"typedef", SP, IF d.is_union THEN "union" ELSE "struct", SP>>
    \o (IF d.tag = <<>> THEN <<>> ELSE d.tag \o <<SP>>)
    \o <<"{">> \o sep \o RenderFields(d.fields, 1, sep) \o <<SP, "}">>
    \o (IF d.alias = <<>> THEN <<>> ELSE <<SP>> \o d.alias) \o <<";">>

CdefAlias ==
    \E d \in AliasDecls :
        /\ CdefText(RenderAlias(d))
        /\ lastBlock' = <<d>>
        /\ UNCHANGED <<memVars, lastCall, cbVars, moreVars, threadVars>>

NextAlias == CdefAlias
SpecAlias == Init /\ [][NextAlias]_vars

\* the name the declaration d is to be registered under: its alias, else its tag
AliasOrTag(d) == IF d.alias # <<>> THEN d.alias ELSE d.tag

\* C19: a typedef struct / typedef union declaration is registered under its
\* alias, or under its tag when no alias follows the closing brace, and no
\* definition is registered under the empty name.
C19_RegisteredUnderAliasOrTag ==
    /\ <<>> \notin DOMAIN structs
    /\ lastBlock # <<>> /\ AliasOrTag(lastBlock[1]) # <<>> =>
          /\ AliasOrTag(lastBlock[1]) \in DOMAIN structs
          /\ structs[AliasOrTag(lastBlock[1])].name = AliasOrTag(lastBlock[1])
          /\ structs[AliasOrTag(lastBlock[1])].is_union = lastBlock[1].is_union
          /\ Len(structs[AliasOrTag(lastBlock[1])].fields) = Len(lastBlock[1].fields)

(***************************************************************************)
(* Compact multi-field declarations: T d1, d2, ..., dn;                    *)
(***************************************************************************)
MaxDeclarators == 3

\* declarators: a plain name, a pointer, an array of 3
DeclaratorKinds == {"plain", "pointer", "array"}
CompactNames == <<"a", "b", "c", "d", "e">>
BaseTypes == {[text |-> <<"char">>, ctype |-> Prim("Char")],
              [text |-> <<"int">>, ctype |-> Prim("Int")]}

\* typedef struct { char a,b,c,d; int e; } Mix;
MixDecl ==
    [base |-> [text |-> <<"char">>, ctype |-> Prim("Char")],
     declarators |-> <<"plain", "plain", "plain", "plain">>,
     star |-> "name", comma |-> <<",">>, tail |-> TRUE, name |-> "Mix"]

\* typedef struct { T d1, d2, d3; } S;  the pointer marker of the first
\* declarator is written next to the name (T *a) or next to the type (T* a)
CompactDecls ==
    {d \in [base : BaseTypes,
            declarators : UNION {[1..n -> DeclaratorKinds] : n \in 2..MaxDeclarators},
            star : {"name", "type"}, comma : {<<",", SP>>}, tail : {FALSE},
            name : {"S"}] :
        d.star = "type" => d.declarators[1] = "pointer"}
    \cup {MixDecl}

RenderDeclarator(kind, name) ==
    CASE kind = "plain" -> <<name>>
      [] kind = "pointer" -> <<"*", name>>
      [] kind = "array" -> <<name, "[", "3", "]">>

RECURSIVE RenderDeclarators(_, _)
RenderDeclarators(d, i) ==
    IF i > Len(d.declarators) THEN <<>>
    ELSE d.comma \o RenderDeclarator(d.declarators[i], CompactNames[i])
         \o RenderDeclarators(d, i + 1)

RenderCompact(d) ==
    <<"typedef", SP, "struct", SP, "{", SP>> \o d.base.text
    \o (IF d.star = "type" THEN <<"*", SP, CompactNames[1]>>
        ELSE <<SP>> \o RenderDeclarator(d.declarators[1], CompactNames[1]))
    \o RenderDeclarators(d, 2) \o <<";", SP>>
    \o (IF d.tail THEN <<"int", SP, "e", ";", SP>> ELSE <<>>)
    \o <<"}", SP, d.name, ";">>

CdefCompact ==
    \E d \in CompactDecls :
        /\ CdefText(RenderCompact(d))
        /\ lastBlock' = <<d>>
        /\ UNCHANGED <<memVars, lastCall, cbVars, moreVars, threadVars>>

NextCompact == CdefCompact
SpecCompact == Init /\ [][NextCompact]_vars

\* the type a declarator of the given kind declares over the base type
DeclaredType(base, kind) ==
    CASE kind = "plain" -> base
      [] kind = "pointer" -> Pointer(<<base>>)
      [] kind = "array" -> Array(base, 3)
\* the fields the declaration d declares: names and types, in order
DeclaredFields(d) ==
    [i \in 1..Len(d.declarators) |->
        [name |-> <<CompactNames[i]>>,
         ctype |-> DeclaredType(d.base.ctype, d.declarators[i])]]
    \o (IF d.tail THEN <<[name |-> <<"e">>, ctype |-> Prim("Int")]>> ELSE <<>>)
FieldDecls(def) ==
    [i \in 1..Len(def.fields) |-> [name |-> def.fields[i].name, ctype |-> def.fields[i].ctype]]

\* C20: a compact declaration T d1, ..., dn; yields n fields in order, each of
\* base type T with the pointer marker and the array suffix of its own
\* declarator and of no other, wherever the first marker is written; and Mix
\* has a@0, b@1, c@2, d@3, e@4 and size 8.
C20_CompactExpansion ==
    lastBlock # <<>> =>
        /\ FieldDecls(structs[<<lastBlock[1].name>>]) = DeclaredFields(lastBlock[1])
        /\ lastBlock[1] = MixDecl =>
              /\ FieldOffsets(structs[<<"Mix">>]) = <<0, 1, 2, 3, 4>>
              /\ structs[<<"Mix">>].size = 8

(***************************************************************************)
(* typedef enum: the values of the entries.                                *)
(***************************************************************************)
MaxEntries == 3

\* what follows an entry's name: nothing, or "= value" in decimal or in hex
ValueKinds == <<
    [text |-> <<>>, val |-> <<>>],
    [text |-> <<"5">>, val |-> <<5>>],
    [text |-> <<"-2">>, val |-> <<-2>>],
    [text |-> <<"0x10">>, val |-> <<16>>] >>
EntryNames == <<"RED", "GREEN", "BLUE", "ALPHA">>

\* typedef enum { RED [= v], GREEN [= v], ... } Color;  on one line or
\* with one entry per line
EnumDecls ==
    [entries : UNION {[1..n -> 1..Len(ValueKinds)] : n \in 0..MaxEntries},
     lines : {1, 2}]

RECURSIVE RenderEntries(_, _)
RenderEntries(d, i) ==
    IF i > Len(d.entries) THEN <<>>
    ELSE <<SP, EntryNames[i]>>
         \o (IF ValueKinds[d.entries[i]].text = <<>> THEN <<>>
             ELSE <<SP, "=", SP>> \o ValueKinds[d.entries[i]].text)
         \o (IF i < Len(d.entries) THEN <<",">> ELSE <<>>)
         \o (IF d.lines = 1 THEN <<>> ELSE <<NL>>)
         \o RenderEntries(d, i + 1)

RenderEnum(d) ==
    <<"typedef", SP, "enum", SP, "{">> \o (IF d.lines = 1 THEN <<>> ELSE <<NL>>)
    \o RenderEntries(d, 1) \o <<SP, "}", SP, "Color", ";">>

CdefEnum ==
    \E d \in EnumDecls :
        /\ CdefText(RenderEnum(d))
        /\ lastBlock' = <<d>>
        /\ UNCHANGED <<memVars, lastCall, cbVars, moreVars, threadVars>>

NextEnum == CdefEnum
SpecEnum == Init /\ [][NextEnum]_vars

\* the value of entry i of the declaration d: the one written, else one more
\* than the entry before it, else 0
RECURSIVE EntryValue(_, _)
EntryValue(d, i) ==
    IF ValueKinds[d.entries[i]].val # <<>> THEN ValueKinds[d.entries[i]].val[1]
    ELSE IF i = 1 THEN 0
    ELSE EntryValue(d, i - 1) + 1

\* C21: the entries of a typedef enum are valued in source order: a written
\* decimal or hex value is taken as it is, an entry without one is one more than
\* the entry before it, the first being 0; the registered map holds one pair
\* per entry.
C21_EnumValues ==
    lastBlock # <<>> =>
        /\ <<"Color">> \in DOMAIN enums
        /\ DOMAIN enums[<<"Color">>] =
              {<<EntryNames[i]>> : i \in 1..Len(lastBlock[1].entries)}
        /\ \A i \in 1..Len(lastBlock[1].entries) :
              enums[<<"Color">>][<<EntryNames[i]>>] = EntryValue(lastBlock[1], i)

\* RED, GREEN = 0x10, BLUE on three lines: 0, 16, 17
C21_Witness ==
    /\ lastBlock = <<[entries |-> <<1, 4, 1>>, lines |-> 2]>>
    /\ enums[<<"Color">>][<<"RED">>] = 0
    /\ enums[<<"Color">>][<<"GREEN">>] = 16
    /\ enums[<<"Color">>][<<"BLUE">>] = 17

(***************************************************************************)
(* The layout of the registered structs against the current registry.      *)
(***************************************************************************)
\* the byte ranges of the fields of def, sizes resolved in the struct table S
Disjoint(def, S) ==
    \A i \in 1..Len(def.fields) : \A j \in (i + 1)..Len(def.fields) :
        \/ FieldEnd(def.fields[i], S) <= def.fields[j].offset
        \/ FieldEnd(def.fields[j], S) <= def.fields[i].offset
Within(def, S) ==
    \A i \in 1..Len(def.fields) : FieldEnd(def.fields[i], S) <= def.size

\* C22: after any sequence of cdef calls every registered struct has fields
\* whose byte ranges, with sizes resolved through the current registry, do not
\* overlap and lie within the struct's size.
C22_LayoutAfterRedefinition ==
    \A n \in DOMAIN structs :
        /\ ~structs[n].is_union => Disjoint(structs[n], structs)
        /\ Within(structs[n], structs)

(***************************************************************************)
(* Calling a region of function-pointer type (memory.rs 228-270).  The     *)
(* pointer-sized words of the allocated regions are kept in heap, by       *)
(* address.  The addresses of native functions lie outside every region.   *)
(***************************************************************************)
FnAddrs == {100, 200}
\* typedef struct { binop f; } Ops;
OpsTypedef ==
    <<"typedef", SP, "struct", SP, "{", SP, "binop", SP, "f", ";", SP, "}", SP, "Ops", ";">>
FnTexts == {BinopTypedef, OpsTypedef}
FnTypeNames == {<<"binop">>, <<"Ops">>}
FnValues == {LuaNil} \cup {LuaInteger(a) : a \in FnAddrs}
FnArgs == {<<LuaInteger(4), LuaInteger(4)>>}
FnKeys == {LuaInteger(0), LuaString(<<"f">>)}
IsFnPtr(ctype) ==
    ctype.k = "Pointer" /\ ctype.inner # <<>> /\ ctype.inner[1].k = "Function"

\* the words of a region of the given size that starts at ptr
Words(ptr, size) == {Offset(ptr, 8 * k) : k \in 0..((size \div 8) - 1)}
\* ptr::write_bytes(ptr, 0, size) in CBox::new
Zeroed(H, ptr, size) ==
    [a \in DOMAIN H \cup Words(ptr, size) |-> IF a \in Words(ptr, size) THEN 0 ELSE H[a]]

\* lua_to_c_at_ptr for a pointer or function type: the address taken from the
\* value is written at ptr; the other types leave the words as they are
lua_to_c_at_ptr(ctype, ptr, value, H) ==
    LET p == CASE value.k = "Nil" -> 0
               [] value.k = "Integer" -> value.v
               [] OTHER -> 0
    IN IF ptr # 0 /\ ctype.k \in {"Pointer", "Function"} /\ ptr \in DOMAIN H
       THEN [H EXCEPT ![ptr] = p]
       ELSE H

\* the words a read of the pointer at ptr can give: the word stored there in a
\* region, and for the address of a native function the first bytes of its
\* machine code, which are some word other than that address
Loaded(ptr, H) ==
    IF ptr \in DOMAIN H THEN {H[ptr]} ELSE {0, ptr + 1}

fnRest == <<lastBlock, handles, cbVars, threadVars, typeProbe, lastBatch, added, lastIndex,
           ffiOp, lastSlots, sigVars>>

CdefFn ==
    \E text \in FnTexts :
        /\ CdefText(text)
        /\ UNCHANGED <<fnRest, boxes, allocs, lastCall, heap>>

\* ffi.new(type_name) and ffi.new(type_name, init)
FnNew ==
    \E tn \in FnTypeNames, init \in {<<>>} \cup {<<v>> : v \in FnValues} :
        LET ctype == CType_parse(tn, Registry)
            ptr == Len(allocs) + 1
            fresh(size) == Zeroed(heap, ptr, size)
        IN /\ Len(boxes) < MaxBoxes
           /\ ctype # <<>>
           /\ CType_size(ctype[1], structs) # 0
           /\ CBox_new(ctype[1])
           /\ heap' = IF init = <<>> THEN fresh(CType_size(ctype[1], structs))
                      ELSE lua_to_c_at_ptr(ctype[1], ptr, init[1],
                                           fresh(CType_size(ctype[1], structs)))
           /\ UNCHANGED <<regVars, fnRest, lastCall>>

\* __newindex on a region that owns its memory: box[0] = value, box.f = value
FnStore ==
    \E b \in 1..Len(boxes), key \in FnKeys, value \in FnValues :
        LET write(t) ==
                IF t = <<>> THEN heap ELSE lua_to_c_at_ptr(t[1].ctype, t[1].ptr, value, heap)
        IN /\ boxes[b].owned
           /\ heap' = write(CBox_index_target(boxes[b], key))
           /\ UNCHANGED <<regVars, fnRest, boxes, allocs, lastCall>>

\* __index on a region that owns its memory: box[0], box.f
FnIndex ==
    \E b \in 1..Len(boxes), key \in FnKeys :
        LET t == CBox_index_target(boxes[b], key)
            wrap(result) ==
                IF result = <<>> THEN UNCHANGED boxes
                ELSE CBox_from_raw(result[1].ptr, result[1].ctype, result[1].owned)
        IN /\ boxes[b].owned
           /\ Len(boxes) < MaxBoxes
           /\ t # <<>>
           /\ t[1].ptr \in DOMAIN heap
           /\ wrap(c_to_lua_at_ptr(t[1].ctype, t[1].ptr, heap[t[1].ptr]))
           /\ UNCHANGED <<regVars, fnRest, allocs, lastCall, heap>>

\* ffi.cast(type_name, address)
FnCast ==
    \E tn \in FnTypeNames, a \in FnAddrs \cup {0} :
        LET ctype == CType_parse(tn, Registry) IN
        /\ Len(boxes) < MaxBoxes
        /\ ctype # <<>>
        /\ CBox_from_raw(a, ctype[1], FALSE)
        /\ UNCHANGED <<regVars, fnRest, allocs, lastCall, heap>>

\* the address handed to CBox_call: for a pointer to function the word read
\* at this.ptr, for a function type this.ptr itself
FnAddr(a) == IF a = 0 THEN NullPtr ELSE <<"addr", a>>
CBox_call_this(this, word, args) ==
    CBox_call(this.ctype, FnAddr(IF this.ctype.k = "Function" THEN this.ptr ELSE word),
              args)

\* __call on the region boxes[b]; reading through a null this.ptr ends the
\* process
FnCallBox(b, args) ==
    /\ b \in 1..Len(boxes)
    /\ \/ /\ IsFnPtr(boxes[b].ctype) /\ boxes[b].ptr = 0
          /\ lastCall' = <<[path |-> "cdata", fn_ptr |-> NullPtr,
                            sig |-> SigOfCType(boxes[b].ctype), args |-> args,
                            fast |-> FALSE, out |-> Crashed]>>
       \/ /\ ~(IsFnPtr(boxes[b].ctype) /\ boxes[b].ptr = 0)
          /\ \E word \in Loaded(boxes[b].ptr, heap) :
                lastCall' = <<[path |-> "cdata", fn_ptr |-> FnAddr(word),
                               sig |-> SigOfCType(boxes[b].ctype), args |-> args,
                               fast |-> FALSE,
                               out |-> CBox_call_this(boxes[b], word, args)]>>
    /\ UNCHANGED <<regVars, fnRest, boxes, allocs, heap>>

FnCall == \E b \in 1..Len(boxes), args \in FnArgs : FnCallBox(b, args)

NextFn == CdefFn \/ FnNew \/ FnStore \/ FnIndex \/ FnCast \/ FnCall
SpecFn == Init /\ [][NextFn]_vars

\* the function address a region of pointer-to-function type stands for: the
\* word in its own memory when it was created by new, the address it was
\* made from when it was read from a field or produced by cast
Held(this) == IF this.owned THEN heap[this.ptr] ELSE this.ptr

\* C23: a call of a region of type pointer-to-function, however the region
\* was obtained, invokes exactly the function address the region holds, and
\* when that address is 0 it fails with an error and runs no native code
C23_CallsStoredAddress ==
    [][\A b \in 1..Len(boxes), args \in FnArgs :
          (FnCallBox(b, args) /\ IsFnPtr(boxes[b].ctype)) =>
              LET out == lastCall'[1].out IN
              IF Held(boxes[b]) = 0
              THEN out.err # "" /\ out.native = <<>> /\ ~out.crashed
              ELSE out.native # <<>> /\ out.native[1].fn = FnAddr(Held(boxes[b]))]_vars

(***************************************************************************)
(* Prototypes whose parameters are named or unnamed (parser.rs 751-815).   *)
(***************************************************************************)
\* a prototype of f; named holds the positions of the parameters that are
\* followed by a name
AnonDecls ==
    {d \in [ret : {<<"int">>, <<"void">>}, name : {"f"}, params : ParamLists,
            named : SUBSET (1..MaxParams)] :
        d.named \subseteq 1..Len(d.params)}

RECURSIVE RenderAnonParams(_, _)
RenderAnonParams(d, i) ==
    IF i > Len(d.params) THEN <<>>
    ELSE ParamKinds[d.params[i]].type
         \o (IF i \in d.named
             THEN <<SP>> \o ParamKinds[d.params[i]].ptr \o <<FieldNames[i]>>
             ELSE ParamKinds[d.params[i]].ptr)
         \o (IF i < Len(d.params) THEN <<",", SP>> ELSE <<>>)
         \o RenderAnonParams(d, i + 1)

RenderAnon(d) ==
    d.ret \o <<SP, d.name, "(">>
    \o (IF d.params = <<>> THEN <<"void">> ELSE RenderAnonParams(d, 1))
    \o <<")", ";">>

CdefAnon ==
    \E d \in AnonDecls :
        /\ CdefText(RenderAnon(d))
        /\ lastBlock' = <<d>>
        /\ UNCHANGED <<memVars, lastCall, cbVars, moreVars, threadVars>>

NextAnon == CdefAnon
SpecAnon == Init /\ [][NextAnon]_vars

\* C24: every parameter of a registered prototype, named or unnamed, has the
\* C type written for it, and the prototype has as many registered
\* parameters as were written.
C24_ParameterTypes ==
    lastBlock # <<>> =>
        /\ <<lastBlock[1].name>> \in DOMAIN funcs
        /\ Len(LastSig.args) = Len(lastBlock[1].params)
        /\ \A i \in 1..Len(lastBlock[1].params) :
              LastSig.args[i].ctype = ParamKinds[lastBlock[1].params[i]].ctype

(***************************************************************************)
(* Type-name resolution against a registry that holds the same name in     *)
(* several tables (types.rs 239-278).                                      *)
(***************************************************************************)
\* a primitive keyword, a name of the P* convention, a plain name
ResolveNames == {<<"int">>, <<"PBAR">>, <<"Foo">>}
PrefixedNames == {<<"struct", SP, "Foo">>, <<"union", SP, "Foo">>, <<"enum", SP, "Foo">>}
ProbeNames == ResolveNames \cup PrefixedNames \cup {<<"Foo", "*">>, <<"Bar">>}
ResolveStruct(n) ==
    [name |-> n, fields |-> <<[name |-> <<"a">>, ctype |-> Prim("Int"), offset |-> 0]>>,
     size |-> 4, align |-> 4, is_union |-> FALSE, is_packed |-> FALSE]

Register ==
    \E n \in ResolveNames :
        /\ \/ SetRegistry(add_struct(Registry, ResolveStruct(n)))
           \/ SetRegistry(add_enum(Registry, n, [e \in {<<"RED">>} |-> 0]))
           \/ SetRegistry(add_typedef(Registry, n, Prim("Double")))
        /\ UNCHANGED <<lastBlock, memVars, lastCall, cbVars, moreVars, threadVars>>

\* CType::parse(name) against the registry as it is now
Resolve ==
    \E name \in ProbeNames :
        /\ typeProbe' = <<[build |-> TheBuild, op |-> "parse", name |-> name,
                           reg |-> Registry, result |-> CType_parse(name, Registry)]>>
        /\ UNCHANGED <<regVars, lastBlock, memVars, lastCall, cbVars, threadVars,
                       lastBatch, extraVars>>

NextResolve == Register \/ Resolve
SpecResolve == Init /\ [][NextResolve]_vars

\* the type the priority order gives the identifier n under the registry R
ByPriority(n, R) ==
    CASE n \in Keywords -> PrimitiveOf(n)[1]
      [] n \notin Keywords /\ n \in DOMAIN R.structs -> Struct(n)
      [] n \notin Keywords /\ n \notin DOMAIN R.structs /\ n \in DOMAIN R.enums -> Enum(n)
      [] n \notin Keywords /\ n \notin DOMAIN R.structs \cup DOMAIN R.enums
         /\ n \in DOMAIN R.typedefs -> R.typedefs[n]
      [] n \notin Keywords
         /\ n \notin DOMAIN R.structs \cup DOMAIN R.enums \cup DOMAIN R.typedefs
         /\ n[1] \in PointerConventionNames -> Pointer(<<>>)
      [] OTHER -> Struct(n)

MaxLineParams == 3
\* int a / int (*cb)(int)
LineParams == <<
    <<"int", SP, "a">>,
    <<"int", SP, "(", "*", "cb", ")", "(", "int", ")">> >>
\* a prototype of f; breaks holds the parameters that are followed by a line
\* break after their comma
LineDecls ==
    {d \in [ret : {<<"int">>}, name : {"f"},
            params : UNION {[1..n -> 1..Len(LineParams)] : n \in 1..MaxLineParams},
            breaks : SUBSET (1..(MaxLineParams - 1))] :
        d.breaks \subseteq 1..(Len(d.params) - 1)}

RECURSIVE RenderLineParams(_, _)
RenderLineParams(d, i) ==
    IF i > Len(d.params) THEN <<>>
    ELSE LineParams[d.params[i]]
         \o (IF i = Len(d.params) THEN <<>>
             ELSE IF i \in d.breaks THEN <<",", NL, SP, SP>> ELSE <<",", SP>>)
         \o RenderLineParams(d, i + 1)

RenderLines(d) == d.ret \o <<SP, d.name, "(">> \o RenderLineParams(d, 1) \o <<")", ";", NL>>

CdefLines ==
    \E d \in LineDecls :
        /\ CdefText(RenderLines(d))
        /\ lastBlock' = <<d>>
        /\ UNCHANGED <<memVars, lastCall, cbVars, moreVars, threadVars>>

NextLines == CdefLines
SpecLines == Init /\ [][NextLines]_vars

\* C26: a prototype registers exactly one function, on one line or spread
\* over several: after any sequence of cdef calls that each declare f, f is
\* the only function registered and no other table has an entry.
C26_OneDeclarationPerPrototype ==
    lastBlock # <<>> =>
        /\ DOMAIN funcs = {<<"f">>}
        /\ DOMAIN structs = {} /\ DOMAIN enums = {} /\ DOMAIN typedefs = {}

(***************************************************************************)
(* The registry lock during one FFI operation of the Lua thread.  Every    *)
(* Registry::get() locks the Mutex and the guard it returns unlocks it     *)
(* when it goes out of scope; an operation is followed through the         *)
(* sequence of these two events that its code performs.                    *)
(***************************************************************************)
\* typedef struct { int a; } Inner;
InnerTypedef ==
    <<"typedef", SP, "struct", SP, "{", SP, "int", SP, "a", ";", SP, "}", SP, "Inner", ";">>
\* typedef struct { Inner in; Inner arr[2]; int n; } Outer;
OuterTypedef ==
    <<"typedef", SP, "struct", SP, "{", SP, "Inner", SP, "in", ";", SP,
      "Inner", SP, "arr", "[", "2", "]", ";", SP, "int", SP, "n", ";", SP, "}", SP,
      "Outer", ";">>
\* typedef union { Inner in; int n; } Either;
EitherTypedef ==
    <<"typedef", SP, "union", SP, "{", SP, "Inner", SP, "in", ";", SP,
      "int", SP, "n", ";", SP, "}", SP, "Either", ";">>
NestedTexts == {InnerTypedef, OuterTypedef, EitherTypedef}
NestedTypeNames == {<<"Inner">>, <<"Outer">>, <<"Either">>}
NestedKeys == {<<"in">>, <<"arr">>, <<"n">>, <<"a">>}
\* the Lua values handed to an operation: nil, a number, a region, and a
\* table, which has an entry for every field at every depth or for the
\* fields of primitive type only
NestedValues == {"Nil", "Integer", "CData", "Table", "FlatTable"}
IsAggregate(ctype) == ctype.k \in {"Struct", "Union", "Array"}
\* t.get(key) of a table value for a field or element of the given type
TableEntry(value, ctype) ==
    IF IsAggregate(ctype) THEN (IF value = "Table" THEN "Table" ELSE "Nil") ELSE "Integer"

\* CType::size and CType::align: a struct or union name is looked up under a
\* guard that lives for that statement
RECURSIVE SizeLocks(_)
SizeLocks(ctype) ==
    CASE ctype.k \in {"Struct", "Union"} -> <<"get", "drop">>
      [] ctype.k = "Array" -> SizeLocks(ctype.elem)
      [] OTHER -> <<>>

\* c_to_lua_at_ptr: the arms that build a region call CBox::from_raw, which
\* asks the type for its size
c_to_lua_locks(ctype) ==
    IF ctype.k \in {"Pointer", "Array", "Struct", "Union", "Function"}
    THEN SizeLocks(ctype) ELSE <<>>

\* lua_to_c_at_ptr: [ev, ok], ok being FALSE when it returns Err
RECURSIVE lua_to_c_locks(_, _, _)
RECURSIVE FieldLocks(_, _, _, _)
RECURSIVE ElemLocks(_, _, _, _)
lua_to_c_locks(ctype, value, S) ==
    LET copy == [ev |-> SizeLocks(ctype), ok |-> TRUE]
        guarded(r) == [ev |-> <<"get">> \o r.ev \o <<"drop">>, ok |-> r.ok]
        fields == IF ctype.name \in DOMAIN S
                  THEN FieldLocks(S[ctype.name].fields, 1, value, S)
                  ELSE [ev |-> <<>>, ok |-> TRUE]
    IN CASE ctype.k = "Array" /\ value \in {"Table", "FlatTable"} ->
                ElemLocks(ctype.elem, ctype.count, value, S)
         [] ctype.k = "Array" /\ value = "CData" -> copy
         [] ctype.k = "Array" -> [ev |-> <<>>, ok |-> FALSE]
         [] ctype.k \in {"Struct", "Union"} /\ value \in {"Table", "FlatTable"} ->
                guarded(fields)
         [] ctype.k \in {"Struct", "Union"} /\ value = "CData" -> copy
         [] ctype.k \in {"Struct", "Union"} -> [ev |-> <<>>, ok |-> FALSE]
         [] OTHER -> [ev |-> <<>>, ok |-> TRUE]

\* the loop over the fields of the definition, left at the first Err
FieldLocks(fields, i, value, S) ==
    LET then(r, rest) == [ev |-> r.ev \o rest.ev, ok |-> rest.ok]
        step(r) == IF r.ok THEN then(r, FieldLocks(fields, i + 1, value, S)) ELSE r
    IN IF i > Len(fields) THEN [ev |-> <<>>, ok |-> TRUE]
       ELSE step(lua_to_c_locks(fields[i].ctype, TableEntry(value, fields[i].ctype), S))

\* the loop over the elements of an array, left at the first Err
ElemLocks(elem, n, value, S) ==
    LET then(r, rest) == [ev |-> SizeLocks(elem) \o r.ev \o rest.ev, ok |-> rest.ok]
        step(r) ==
            IF r.ok THEN then(r, ElemLocks(elem, n - 1, value, S))
            ELSE [ev |-> SizeLocks(elem) \o r.ev, ok |-> FALSE]
    IN IF n = 0 THEN [ev |-> <<>>, ok |-> TRUE]
       ELSE step(lua_to_c_locks(elem, TableEntry(value, elem), S))

\* the field a name stands for in a struct or union type, or <<>>
NamedField(ctype, key, S) ==
    IF ctype.k \in {"Struct", "Union"} /\ ctype.name \in DOMAIN S
    THEN StructDef_field(S[ctype.name], key) ELSE <<>>

\* __index with a field name: the guard is taken once the type is a struct
\* or union and is held while the field is read
IndexLocks(ctype, key, S) ==
    LET read(field) == IF field = <<>> THEN <<>> ELSE c_to_lua_locks(field[1].ctype)
    IN IF ctype.k \in {"Struct", "Union"}
       THEN <<"get">> \o read(NamedField(ctype, key, S)) \o <<"drop">>
       ELSE <<>>

\* __newindex with a field name: the guard is taken first and is held while
\* the value is written
NewIndexLocks(ctype, key, value, S) ==
    LET write(field) ==
            IF field = <<>> THEN <<>> ELSE lua_to_c_locks(field[1].ctype, value, S).ev
    IN <<"get">> \o write(NamedField(ctype, key, S)) \o <<"drop">>

\* ffi.new(type, init): the size check, CBox::new, then the initializer
NewLocks(ctype, value, S) ==
    SizeLocks(ctype) \o SizeLocks(ctype) \o SizeLocks(ctype)
    \o lua_to_c_locks(ctype, value, S).ev

OpLocks(kind, ctype, key, value, S) ==
    CASE kind = "index" -> IndexLocks(ctype, key, S)
      [] kind = "newindex" -> NewIndexLocks(ctype, key, value, S)
      [] kind = "new" -> NewLocks(ctype, value, S)

opRest == <<lastBlock, memVars, lastCall, cbVars, threads, seen, typeProbe, lastBatch,
            added, lastIndex, heap, lastSlots, sigVars>>
Idle == IF ffiOp = <<>> THEN TRUE ELSE ffiOp[1].state # "running"

CdefNested ==
    \E text \in NestedTexts :
        /\ Idle
        /\ CdefText(text)
        /\ UNCHANGED <<opRest, lock, ffiOp>>

\* the Lua thread starts box.key, box.key = value or ffi.new(type, value)
BeginOp ==
    \E kind \in {"index", "newindex", "new"}, tn \in NestedTypeNames,
       key \in NestedKeys, value \in NestedValues :
        LET ctype == CType_parse(tn, Registry) IN
        /\ Idle /\ lock = <<>>
        /\ ctype # <<>>
        /\ kind = "new" => CType_size(ctype[1], structs) # 0 /\ key = <<"a">>
        /\ kind = "index" => value = "Nil"
        /\ ffiOp' = <<[kind |-> kind, type |-> tn, key |-> key, value |-> value,
                       ev |-> OpLocks(kind, ctype[1], key, value, structs),
                       pc |-> 1, state |-> "running"]>>
        /\ UNCHANGED <<regVars, opRest, lock>>

Running == ffiOp # <<>> /\ ffiOp[1].state = "running"
AtEvent(e) == Running /\ ffiOp[1].pc <= Len(ffiOp[1].ev) /\ ffiOp[1].ev[ffiOp[1].pc] = e

\* Registry::get(): Mutex::lock() on an unlocked Mutex
Acquire ==
    /\ AtEvent("get") /\ lock = <<>>
    /\ lock' = <<"lua">>
    /\ ffiOp' = <<[ffiOp[1] EXCEPT !.pc = @ + 1]>>
    /\ UNCHANGED <<regVars, opRest>>

\* Mutex::lock() on the thread that holds the Mutex does not return: it
\* blocks for ever, or panics, and the unwinding drops the guard held
Relock ==
    /\ AtEvent("get") /\ lock = <<"lua">>
    /\ \/ ffiOp' = <<[ffiOp[1] EXCEPT !.state = "deadlock"]>> /\ UNCHANGED lock
       \/ ffiOp' = <<[ffiOp[1] EXCEPT !.state = "panic"]>> /\ lock' = <<>>
    /\ UNCHANGED <<regVars, opRest>>

\* the guard goes out of scope
Release ==
    /\ AtEvent("drop")
    /\ lock' = <<>>
    /\ ffiOp' = <<[ffiOp[1] EXCEPT !.pc = @ + 1]>>
    /\ UNCHANGED <<regVars, opRest>>

\* the operation returns to the script
Return ==
    /\ Running /\ ffiOp[1].pc > Len(ffiOp[1].ev)
    /\ ffiOp' = <<[ffiOp[1] EXCEPT !.state = "done"]>>
    /\ UNCHANGED <<regVars, opRest, lock>>

NextNested == CdefNested \/ BeginOp \/ Acquire \/ Relock \/ Release \/ Return
SpecNested == Init /\ [][NextNested]_vars

\* C27: no operation asks for the registry lock while its thread holds it:
\* an operation never ends blocked or panicking on the lock, and when it has
\* returned the lock is free.
C27_NoRelock ==
    ffiOp # <<>> =>
        /\ ffiOp[1].state \notin {"deadlock", "panic"}
        /\ ffiOp[1].state = "done" => lock = <<>>

(***************************************************************************)
(* The slot storage of an invocation (call.rs 228-258, 396-516): values    *)
(* is a Vec<u64> that prepare_arg pushes one slot to per argument, and     *)
(* arg_values holds the address of each slot as it was when pushed.  A     *)
(* buffer is named by a number; a reallocation that moves the slots gives  *)
(* them the next number and frees the buffer they were in.                 *)
(***************************************************************************)
MaxSlots == 6
\* RawVec::grow_amortized for an element of 8 bytes
GrownCap(cap, required) == Max(Max(cap * 2, required), 4)
\* Vec::new() and Vec::with_capacity(n)
VecNew == [buf |-> 0, cap |-> 0, slots |-> <<>>, grown |-> 0]
VecWithCapacity(n) == [buf |-> IF n = 0 THEN 0 ELSE 1, cap |-> n, slots |-> <<>>, grown |-> 0]

\* Vec::push: when the capacity is used up the buffer is reallocated, and
\* moved[g] says whether the g-th reallocation moved the slots
VecPush(vec, slot, moved) ==
    LET grow == [buf |-> IF vec.cap = 0 \/ moved[vec.grown + 1] THEN vec.buf + 1
                         ELSE vec.buf,
                 cap |-> GrownCap(vec.cap, Len(vec.slots) + 1),
                 slots |-> Append(vec.slots, slot),
                 grown |-> IF vec.cap = 0 THEN vec.grown ELSE vec.grown + 1]
    IN IF Len(vec.slots) = vec.cap THEN grow
       ELSE [vec EXCEPT !.slots = Append(vec.slots, slot)]

\* prepare_arg on the slot storage: [values, ptr], ptr being the address of
\* the slot just written
prepare_arg_slot(val, ctype, values, moved) ==
    LET pushed(vec) == [values |-> vec, ptr |-> [buf |-> vec.buf, idx |-> Len(vec.slots)]]
    IN pushed(VecPush(values, prepare_arg(val, ctype), moved))

\* the argument loop: [values, arg_values] after the arguments from i on
RECURSIVE ArgLoop(_, _, _, _, _, _, _)
ArgLoop(args, i, arg_types, fixed_only, values, arg_values, moved) ==
    LET next(r) ==
            ArgLoop(args, i + 1, arg_types, fixed_only, r.values,
                    Append(arg_values, r.ptr), moved)
        skip == ArgLoop(args, i + 1, arg_types, fixed_only, values, arg_values, moved)
    IN IF i > Len(args) THEN [values |-> values, arg_values |-> arg_values]
       ELSE IF i <= Len(arg_types)
       THEN next(prepare_arg_slot(args[i], arg_types[i], values, moved))
       ELSE IF fixed_only \/ InferredType(args[i]) = Prim("Void") THEN skip
       ELSE next(prepare_arg_slot(args[i], InferredType(args[i]), values, moved))

\* the state of values and arg_values when invoke_impl reaches ffi_call
invoke_impl_slots(arg_types, args, moved) ==
    ArgLoop(args, 1, arg_types, FALSE, VecNew, <<>>, moved)
\* the same for invoke_cached, which marshals the declared parameters only
invoke_cached_slots(arg_types, args, moved) ==
    ArgLoop(args, 1, arg_types, TRUE, VecWithCapacity(Len(arg_types)), <<>>, moved)

\* the arguments 1, 2, .. n, the first `fixed` of them integers for
\* parameters declared as int, the others integers or numbers
SlotArgs(n, fixed, extra) ==
    [i \in 1..n |-> IF i <= fixed \/ extra = "Integer" THEN LuaInteger(i) ELSE LuaNumber(i)]
SlotTypes(fixed) == [i \in 1..fixed |-> Prim("Int")]
MaxGrowths == 2
Moves == [1..MaxGrowths -> BOOLEAN]

slotRest == <<lastBlock, memVars, lastCall, cbVars, threadVars, typeProbe, lastBatch,
              added, lastIndex, heap, ffiOp, sigVars>>

\* a call through a function pointer (invoke_impl) with n arguments
InvokeImpl ==
    \E n \in 0..MaxSlots, fixed \in 0..MaxSlots, variadic \in BOOLEAN, moved \in Moves,
       extra \in {"Integer", "Number"} :
        /\ IF variadic THEN fixed <= n ELSE fixed = n
        /\ lastSlots' = <<[path |-> "impl", fixed |-> fixed, variadic |-> variadic,
                           args |-> SlotArgs(n, fixed, extra),
                           at_call |-> invoke_impl_slots(SlotTypes(fixed),
                                                         SlotArgs(n, fixed, extra), moved)]>>
        /\ UNCHANGED <<regVars, slotRest>>

\* a call of a library function (invoke_cached) with n arguments
InvokeCached ==
    \E n \in 0..MaxSlots, fixed \in 0..MaxSlots, variadic \in BOOLEAN, moved \in Moves,
       extra \in {"Integer", "Number"} :
        /\ IF variadic THEN fixed <= n ELSE fixed = n
        /\ lastSlots' = <<[path |-> "cached", fixed |-> fixed, variadic |-> variadic,
                           args |-> SlotArgs(n, fixed, extra),
                           at_call |-> invoke_cached_slots(SlotTypes(fixed),
                                                           SlotArgs(n, fixed, extra), moved)]>>
        /\ UNCHANGED <<regVars, slotRest>>

NextSlots == InvokeImpl \/ InvokeCached
SpecSlots == Init /\ [][NextSlots]_vars

\* the i-th argument pointer is the address of the i-th slot of the buffer
\* the slots are in, and that slot holds the marshaled i-th argument
PointsAtSlot(c, i) ==
    /\ c.at_call.arg_values[i] = [buf |-> c.at_call.values.buf, idx |-> i]
    /\ i <= Len(c.at_call.values.slots)
    /\ c.at_call.values.slots[i]
          = prepare_arg(c.args[i], IF i <= c.fixed THEN Prim("Int")
                                   ELSE InferredType(c.args[i]))

\* C28: when a call through a function pointer reaches the native call, every
\* argument pointer is the address of the slot that holds that argument's
\* marshaled value, for any number of fixed and variadic arguments.
C28_SlotPointersValid ==
    (lastSlots # <<>> /\ lastSlots[1].path = "impl") =>
        /\ Len(lastSlots[1].at_call.arg_values) = Len(lastSlots[1].args)
        /\ \A i \in 1..Len(lastSlots[1].args) : PointsAtSlot(lastSlots[1], i)

(***************************************************************************)
(* Signals (lux-signal/src/lib.rs).  One signal, the Connection handles    *)
(* the script holds, and the calls of fire that have not returned yet: a   *)
(* handler is a script function and may call Fire, Connect, Once and       *)
(* Disconnect on the signal it is invoked by.                              *)
(***************************************************************************)
MaxConns == 3
MaxDepth == 2
MaxPending == 2
CallCap == 2

\* Vec::retain(|c| c.id != id)
Retain(conns, id) == SelectSeq(conns, LAMBDA c : c.id # id)
RECURSIVE RetainAll(_, _)
RetainAll(conns, ids) ==
    IF ids = <<>> THEN conns ELSE RetainAll(Retain(conns, Head(ids)), Tail(ids))

\* Signal::new
Signal_new == [conns |-> <<>>, to_remove |-> <<>>, firing |-> FALSE]
\* Signal::connect with the id taken from CONN_ID
Signal_connect(s, id, once) == [s EXCEPT !.conns = Append(s.conns, [id |-> id, once |-> once])]
\* a disconnect that forgets the request while the signal is firing
Signal_disconnect_lost(s, id) ==
    IF s.firing THEN s ELSE [s EXCEPT !.conns = Retain(s.conns, id)]
\* Signal::disconnect
Signal_disconnect(s, id) ==
    IF s.firing THEN [s EXCEPT !.to_remove = Append(s.to_remove, id)]
    ELSE [s EXCEPT !.conns = Retain(s.conns, id)]
\* the end of Signal::fire: the flag is cleared, the Once connections this
\* call invoked and the pending disconnects are removed
Signal_fire_end(s, once_ids) ==
    [conns |-> RetainAll(RetainAll(s.conns, once_ids), s.to_remove),
     to_remove |-> <<>>, firing |-> FALSE]
\* the Connected field of a Connection
Connected(s, id) == \E i \in 1..Len(s.conns) : s.conns[i].id = id

sigRest == <<regVars, lastBlock, memVars, lastCall, cbVars, threadVars, typeProbe,
             lastBatch, added, lastIndex, heap, ffiOp, lastSlots>>
\* script code runs: the main chunk between calls of Fire, or a handler
InScript == IF fires = <<>> THEN TRUE ELSE Last(fires).running

\* signal:Connect(f) and signal:Once(f)
Connect ==
    \E once \in BOOLEAN :
        /\ InScript
        /\ Len(connections) < MaxConns
        /\ signal' = Signal_connect(signal, Len(connections) + 1, once)
        /\ connections' = Append(connections,
                                 [once |-> once, calls |-> 0, disconnected |-> FALSE])
        /\ UNCHANGED <<sigRest, fires>>

\* connection:Disconnect()
Disconnect ==
    \E id \in 1..Len(connections) :
        /\ InScript
        /\ Len(signal.to_remove) < MaxPending
        /\ signal' = Signal_disconnect(signal, id)
        /\ connections' = [connections EXCEPT ![id].disconnected = TRUE]
        /\ UNCHANGED <<sigRest, fires>>

\* signal:Fire(...) up to the loop: the flag is set and the connections are
\* copied
FireBegin ==
    /\ InScript
    /\ Len(fires) < MaxDepth
    /\ signal' = [signal EXCEPT !.firing = TRUE]
    /\ fires' = Append(fires, [funcs |-> signal.conns, i |-> 0, once_ids |-> <<>>,
                               running |-> FALSE])
    /\ UNCHANGED <<sigRest, connections>>

\* the loop of fire calls the next copied handler
CallHandler ==
    /\ fires # <<>>
    /\ ~Last(fires).running
    /\ Last(fires).i < Len(Last(fires).funcs)
    /\ LET top == Last(fires)
           c == top.funcs[top.i + 1]
       IN /\ fires' = [fires EXCEPT ![Len(fires)] =
                          [top EXCEPT !.i = @ + 1, !.running = TRUE,
                                      !.once_ids = IF c.once THEN Append(@, c.id) ELSE @]]
          /\ connections' = [connections EXCEPT ![c.id].calls = Min(@ + 1, CallCap)]
    /\ UNCHANGED <<sigRest, signal>>

\* the handler returns to the loop
HandlerReturn ==
    /\ fires # <<>>
    /\ Last(fires).running
    /\ fires' = [fires EXCEPT ![Len(fires)].running = FALSE]
    /\ UNCHANGED <<sigRest, signal, connections>>

\* the loop is over and fire returns
FireEnd ==
    /\ fires # <<>>
    /\ ~Last(fires).running
    /\ Last(fires).i = Len(Last(fires).funcs)
    /\ signal' = Signal_fire_end(signal, Last(fires).once_ids)
    /\ fires' = Front(fires)
    /\ UNCHANGED <<sigRest, connections>>

NextSignal == Connect \/ Disconnect \/ FireBegin \/ CallHandler \/ HandlerReturn \/ FireEnd
SpecSignal == Init /\ [][NextSignal]_vars

\* C29: a handler connected with Once is invoked at most once, nested Fire
\* calls included, and once the outermost Fire has returned no Once
\* connection that was invoked is left in the signal.
C29_OnceAtMostOnce ==
    \A id \in 1..Len(connections) :
        connections[id].once =>
            /\ connections[id].calls <= 1
            /\ (fires = <<>> /\ connections[id].calls > 0) => ~Connected(signal, id)

\* the connections on which Disconnect was called
Disconnected == {id \in 1..Len(connections) : connections[id].disconnected}
Quiescent ==
    /\ ~signal.firing
    /\ signal.to_remove = <<>>
    /\ \A id \in Disconnected : ~Connected(signal, id)

\* C30: whenever no Fire of the signal is in progress, the firing flag is
\* false, the pending-removal list is empty and every connection that
\* Disconnect was called on, at any time, is out of the connection list
\* (Connected = false); and a Fire that starts then copies, and so invokes,
\* none of these connections.
C30_DisconnectNeverLost ==
    /\ [](fires = <<>> => Quiescent)
    /\ [][(FireBegin /\ fires = <<>>) =>
            \A i \in 1..Len(fires'[1].funcs) : fires'[1].funcs[i].id \notin Disconnected]_vars

\* two connections were invoked by a Fire, one of them was disconnected, and
\* no Fire is running any more
C30_Witness ==
    /\ fires = <<>>
    /\ Len(connections) = 2
    /\ connections[1].calls > 0 /\ connections[2].calls > 0
    /\ connections[1].disconnected /\ ~connections[2].disconnected
    /\ ~Connected(signal, 1) /\ Connected(signal, 2)

====
